---------------------------- MODULE Spec2Model ----------------------------
(***************************************************************************)
(* A model of the intent-aware retrieval core of EnglishAgent:             *)
(*   rag_core/retriever.py          multi-way retrieval, RRF fusion, rerank*)
(*   rag_core/intent_recognizer.py  intent recognition and target terms    *)
(*                                                                         *)
(* Scores are exact rationals.  A fusion score is kept as an integer in    *)
(* units of 1 / (100 * Scale): weights are in hundredths and Scale is the  *)
(* least common multiple of the RRF denominators k .. k + MaxLen - 1.      *)
(***************************************************************************)
EXTENDS Integers, Sequences, FiniteSets, TLC

-----------------------------------------------------------------------------
(* Bounds of the model *)

\* longest result list one strategy hands to the fusion
MaxLen == 3
\* most hits of all strategies together in one direct call of the fusion
MaxHits == 5

-----------------------------------------------------------------------------
(* Small helpers *)

Range(s) == {s[i] : i \in 1..Len(s)}

Min2(a, b) == IF a <= b THEN a ELSE b

RECURSIVE GCD(_, _)
GCD(a, b) == IF b = 0 THEN a ELSE GCD(b, a % b)

LCM(a, b) == (a \div GCD(a, b)) * b

RECURSIVE LCMRange(_, _)
LCMRange(lo, hi) == IF hi <= lo THEN lo ELSE LCM(LCMRange(lo, hi - 1), hi)

RECURSIVE SeqsUpTo(_, _)
\* all sequences over S of length at most n
SeqsUpTo(S, n) ==
    IF n = 0 THEN {<<>>}
    ELSE LET shorter == SeqsUpTo(S, n - 1)
         IN  shorter \cup {Append(s, x) : s \in {t \in shorter : Len(t) = n - 1}, x \in S}

-----------------------------------------------------------------------------
(* The corpus: rows of the vector index, keyed by their primary key id *)

Ids == {"a", "b", "c", "d", "e", "f", "g", "h", "i"}

\* the ids a direct call of the fusion is tried on
FusionIds == {"a", "b", "c", "d"}

\* content is kept by the features the retriever reads: its length, whether
\* it holds the marker "同近义词", its number of ":" characters, and how often
\* each term occurs in it in lower case
Corpus ==
    [id \in Ids |->
        CASE id = "a" -> [id |-> "a", word |-> "sensible", chunk_type |-> "semantic_network",
                          content |-> [length |-> 120, marker |-> TRUE, colons |-> 3,
                                       occ |-> [sensible |-> 3, happy |-> 1, wise |-> 0]]]
          [] id = "b" -> [id |-> "b", word |-> "sensible", chunk_type |-> "definition",
                          content |-> [length |-> 0, marker |-> FALSE, colons |-> 0,
                                       occ |-> [sensible |-> 0, happy |-> 0, wise |-> 0]]]
          [] id = "c" -> [id |-> "c", word |-> "sensible", chunk_type |-> "examples",
                          content |-> [length |-> 1200, marker |-> FALSE, colons |-> 1,
                                       occ |-> [sensible |-> 2, happy |-> 0, wise |-> 0]]]
          [] id = "d" -> [id |-> "d", word |-> "happy", chunk_type |-> "semantic_network",
                          content |-> [length |-> 500, marker |-> TRUE, colons |-> 1,
                                       occ |-> [sensible |-> 1, happy |-> 2, wise |-> 0]]]
          [] id = "e" -> [id |-> "e", word |-> "sensible", chunk_type |-> "definition",
                          content |-> [length |-> 60, marker |-> FALSE, colons |-> 0,
                                       occ |-> [sensible |-> 1, happy |-> 0, wise |-> 0]]]
          [] id = "f" -> [id |-> "f", word |-> "sensible", chunk_type |-> "semantic_network",
                          content |-> [length |-> 40, marker |-> FALSE, colons |-> 2,
                                       occ |-> [sensible |-> 1, happy |-> 1, wise |-> 0]]]
          [] id = "g" -> [id |-> "g", word |-> "sensible", chunk_type |-> "examples",
                          content |-> [length |-> 0, marker |-> FALSE, colons |-> 0,
                                       occ |-> [sensible |-> 0, happy |-> 0, wise |-> 0]]]
          [] id = "h" -> [id |-> "h", word |-> "sensible", chunk_type |-> "examples",
                          content |-> [length |-> 2000, marker |-> FALSE, colons |-> 0,
                                       occ |-> [sensible |-> 3, happy |-> 0, wise |-> 0]]]
          [] OTHER    -> [id |-> "i", word |-> "sensible", chunk_type |-> "examples",
                          content |-> [length |-> 120, marker |-> FALSE, colons |-> 4,
                                       occ |-> [sensible |-> 2, happy |-> 0, wise |-> 1]]]]

-----------------------------------------------------------------------------
(* Retriever configuration and the weighted RRF fusion *)

Strategies == {"semantic", "keyword_bm25", "intention_aware"}

\* list(self.retrieval_strategies.keys())
DefaultStrategies == <<"semantic", "keyword_bm25", "intention_aware">>

\* Retriever.__init__: self.retrieval_strategies, the weights in hundredths
DefaultWeights ==
    [s \in Strategies |->
        CASE s = "semantic"     -> [weight |-> 40, top_k |-> 8]
          [] s = "keyword_bm25" -> [weight |-> 30, top_k |-> 8]
          [] OTHER              -> [weight |-> 10, top_k |-> 5]]

\* the configuration of the fusion scenario: every strategy weighs 0.5
EqualWeights == [s \in Strategies |-> [DefaultWeights[s] EXCEPT !.weight = 50]]

\* the weights a configuration may hold, in hundredths
WeightValues == {10, 30, 40, 50}

\* RRF smoothing parameter
k == 60

Scale == LCMRange(k, k + MaxLen - 1)

\* the base weight, whatever the intent
UnadjustedWeight(strategy, intent, base_weight) == base_weight

_adjust_strategy_weight_by_intent(strategy, intent, base_weight) ==
    IF intent.type = "synonym"
    THEN IF strategy \in {"exact_match", "intention_aware"} THEN (base_weight * 15) \div 10
         ELSE IF strategy = "semantic" THEN (base_weight * 8) \div 10
         ELSE base_weight
    ELSE base_weight

RrfContributionOneBased(rank, adjusted_weight) ==
    (Scale \div (rank + 1 + k)) * adjusted_weight

RrfContributionDivided(rank, adjusted_weight) ==
    (Scale \div (rank + k)) \div adjusted_weight

\* rrf_score * adjusted_weight for one hit, rank 0-based
RrfContribution(rank, adjusted_weight) == (Scale \div (rank + k)) * adjusted_weight

\* position of doc_id in ranked_results, 0 when absent
IndexOfId(ranked, doc_id) ==
    IF \E i \in 1..Len(ranked) : ranked[i].id = doc_id
    THEN CHOOSE i \in 1..Len(ranked) : ranked[i].id = doc_id
    ELSE 0

NoScores == [s \in Strategies |-> 0]

\* one iteration of the inner loop: the entry of doc_id is created on its
\* first sight and scores[strategy] is assigned (not accumulated)
RankOneNoDedup(ranked, doc, strategy, contribution) ==
    Append(ranked, [id |-> doc.id, doc |-> doc,
                    scores |-> [NoScores EXCEPT ![strategy] = contribution]])

RankOne(ranked, doc, strategy, contribution) ==
    LET at == IndexOfId(ranked, doc.id)
    IN  IF at = 0
        THEN Append(ranked, [id |-> doc.id, doc |-> doc,
                             scores |-> [NoScores EXCEPT ![strategy] = contribution]])
        ELSE [ranked EXCEPT ![at].scores[strategy] = contribution]

RECURSIVE RankStrategy(_, _, _, _, _)
\* for rank, doc in enumerate(all_results[strategy]), hits 1..n done
RankStrategy(ranked, docs, strategy, adjusted_weight, n) ==
    IF n = 0 THEN ranked
    ELSE RankOne(RankStrategy(ranked, docs, strategy, adjusted_weight, n - 1),
                 docs[n], strategy, RrfContribution(n - 1, adjusted_weight))

RECURSIVE RankAll(_, _, _, _, _)
\* for strategy in strategies, the first n of them done
RankAll(all_results, strats, intent, weights, n) ==
    IF n = 0 THEN <<>>
    ELSE LET before   == RankAll(all_results, strats, intent, weights, n - 1)
             strategy == strats[n]
         IN  IF strategy \in DOMAIN all_results /\ all_results[strategy] # <<>>
             THEN RankStrategy(before, all_results[strategy], strategy,
                               _adjust_strategy_weight_by_intent(strategy, intent,
                                                                 weights[strategy].weight),
                               Len(all_results[strategy]))
             ELSE before

SumScores(scores) ==
    scores["semantic"] + scores["keyword_bm25"] + scores["intention_aware"]

\* fused_doc = data["doc"].copy() with fusion_score and strategy_scores added
FusedDoc(entry) ==
    [id |-> entry.doc.id, word |-> entry.doc.word, chunk_type |-> entry.doc.chunk_type,
     content |-> entry.doc.content, score |-> entry.doc.score,
     strategy |-> entry.doc.strategy,
     fusion_score |-> SumScores(entry.scores), strategy_scores |-> entry.scores]

RECURSIVE InsertDescUnstable(_, _)
InsertDescUnstable(sorted, x) ==
    IF sorted = <<>> THEN <<x>>
    ELSE IF Head(sorted).fusion_score > x.fusion_score
         THEN <<Head(sorted)>> \o InsertDescUnstable(Tail(sorted), x)
         ELSE <<x>> \o sorted

RECURSIVE InsertDesc(_, _)
\* x goes behind every element whose score is not smaller: a stable sort
InsertDesc(sorted, x) ==
    IF sorted = <<>> THEN <<x>>
    ELSE IF Head(sorted).fusion_score >= x.fusion_score
         THEN <<Head(sorted)>> \o InsertDesc(Tail(sorted), x)
         ELSE <<x>> \o sorted

RECURSIVE SortByFusionScore(_)
\* list.sort(key=fusion_score, reverse=True): stable, descending
SortByFusionScore(docs) ==
    IF docs = <<>> THEN <<>>
    ELSE InsertDesc(SortByFusionScore(SubSeq(docs, 1, Len(docs) - 1)), docs[Len(docs)])

_intention_aware_fusion(all_results, strats, intent, weights) ==
    LET ranked_results == RankAll(all_results, strats, intent, weights, Len(strats))
        fused_docs     == [i \in 1..Len(ranked_results) |-> FusedDoc(ranked_results[i])]
    IN  SortByFusionScore(fused_docs)


-----------------------------------------------------------------------------
(* State *)

VARIABLES
    retrieval_strategies,  \* Retriever.retrieval_strategies: strategy -> weight, top_k
    env,                   \* the collaborators: what fails, what the index ranks
    strategies,            \* the requested strategies, in order
    intent,                \* the intent handed to the retriever
    top_k,                 \* the top_k handed to multi_way_retrieve
    all_results,           \* strategy -> its result list
    caught,                \* the strategies whose exception the loop caught
    cursor,                \* the place of the strategy loop in the request
    fused_results,         \* the list _intention_aware_fusion returned
    reranked_results,      \* the list _detailed_rerank returned
    returns,               \* what each finished call of multi_way_retrieve gave
    query,                 \* the query argument of the call, as code points
    keyword_intent,        \* what _keyword_based_recognition returned
    semantic_intent,       \* what _semantic_similarity_recognition returned
    pattern_intent,        \* what _pattern_based_recognition returned
    recognized,            \* what recognize_intent returned
    intent_recognizer,     \* the IntentRecognizer: its example and keyword tables
    served,                \* the calls answered so far: arguments and outcome
    validated,             \* a call of _is_valid_target: its candidate and its result
    lexical,               \* a call of _keyword_bm25_retrieval on a query text
    rewriter,              \* a call of EnhancedRewriteQueryStrategy: arguments and result
    player_states,         \* listening.player_states: user id -> playback state
    response,              \* what the last request of the listening router was answered
    _instance,             \* EmbeddingModel._instance
    _lock,                 \* EmbeddingModel._lock: the caller that holds it, if any
    callers,               \* the concurrent calls of EmbeddingModel(...): where each stands
    load_attempts,         \* how often the body of load_model has run
    pc                     \* where the call stands

vars == <<retrieval_strategies, env, strategies, intent, top_k, all_results, caught, cursor,
          fused_results, reranked_results, returns, query, keyword_intent, semantic_intent,
          pattern_intent, recognized, intent_recognizer, served, validated, lexical, rewriter,
          player_states, response, _instance, _lock, callers, load_attempts, pc>>

\* the calls of their own of the other functions and services
rewriting == <<rewriter>>

listening == <<player_states, response>>

wrapper == <<_instance, _lock, callers, load_attempts>>

extras == <<lexical, rewriting, listening, wrapper>>

\* what outlives a call besides the configuration of the retriever, and the
\* call of _is_valid_target of its own: no step of a call changes them
kept == <<intent_recognizer, served, validated, extras>>

\* the query and the locals of recognize_intent: no step of the retriever changes them
recognizer == <<query, keyword_intent, semantic_intent, pattern_intent, recognized>>

\* a local that holds nothing yet
None == [none |-> TRUE]

\* no call of the rewrite strategy
RewriterIdle == rewriter = None

\* no request to the listening router
ListeningIdle == player_states = <<>> /\ response = None

\* no call of a model wrapper
WrapperIdle == _instance = None /\ _lock = None /\ callers = <<>> /\ load_attempts = 0

\* none of the other functions and services is in use
ExtrasIdle ==
    /\ lexical = None
    /\ RewriterIdle
    /\ ListeningIdle
    /\ WrapperIdle

NotRecognizing ==
    /\ ExtrasIdle
    /\ query = <<>>
    /\ keyword_intent = None
    /\ semantic_intent = None
    /\ pattern_intent = None
    /\ recognized = None
    /\ intent_recognizer = None
    /\ served = <<>>
    /\ validated = None

\* the arguments of a call and the collaborators: no step changes them
inputs == <<env, strategies, intent, top_k>>

-----------------------------------------------------------------------------
(* The strategies *)

Take(seq, n) == SubSeq(seq, 1, Min2(n, Len(seq)))

\* str.lower() on the words of the model
Lower(w) ==
    CASE w = "Sensible" -> "sensible"
      [] w = "Happy"    -> "happy"
      [] w = "The"      -> "the"
      [] OTHER          -> w

\* the outcome of a call: an exception, or a returned list
Raise == [raised |-> TRUE, docs |-> <<>>]
Return(docs) == [raised |-> FALSE, docs |-> docs]

\* the order in which the index hands out its rows: by primary key
IdOrder == <<"a", "b", "c", "d", "e", "f", "g", "h", "i">>

\* MilvusDBClient.query(filter=..., limit=...): the rows with that word and,
\* unless chunk_type is "", that chunk type
IndexQuery(chunk_type, word, limit) ==
    LET Matches(id) == /\ Corpus[id].word = word
                       /\ chunk_type # "" => Corpus[id].chunk_type = chunk_type
    IN  Take(SelectSeq(IdOrder, Matches), limit)

\* the chunk type an intent type filters on, "" for none
IntentChunkType(type) ==
    CASE type = "synonym"    -> "semantic_network"
      [] type = "definition" -> "definition"
      [] type = "example"    -> "examples"
      [] OTHER               -> ""

Hit(id, strategy, score) ==
    [id |-> id, content |-> Corpus[id].content, word |-> Corpus[id].word,
     chunk_type |-> Corpus[id].chunk_type, score |-> score, strategy |-> strategy]

\* what multi_way_retrieve hands to the strategies as "query": the vector
\* embedding_model.encode(query) returned
QueryVector == [kind |-> "vector"]

\* hit.score, the cosine similarity the index reports, in hundredths
Similarity(id) == IF id = "d" THEN 90 ELSE 20

\* min(adjusted_score, 1.0), in hundredths
_adjust_score_by_intent(doc, intent_, base_score) ==
    Min2(base_score
         + (IF intent_.target_word # "" /\ Lower(intent_.target_word) = Lower(doc.word)
            THEN 30 ELSE 0)
         + (IF IntentChunkType(intent_.type) # ""
               /\ doc.chunk_type = IntentChunkType(intent_.type)
            THEN 40 ELSE 0)
         + (IF intent_.type = "synonym" /\ doc.content.marker THEN 20 ELSE 0),
         100)

\* the document built from a hit has the keys id, content, word, chunk_type,
\* score and strategy; doc["semantic_score"] on the first one raises KeyError.
\* An index that failed returned [], whose [0] raises
_semantic_retrieval(query_, intent_, limit) ==
    IF "semantic" \in env.failing THEN Raise
    ELSE LET hits == Take(env.semantic_hits, limit)
             docs == [n \in 1..Len(hits) |-> Hit(hits[n], "semantic", Similarity(hits[n]))]
         IN  IF \E n \in 1..Len(docs) : "semantic_score" \notin DOMAIN docs[n] THEN Raise
             ELSE Return([n \in 1..Len(docs) |->
                     [key \in DOMAIN docs[n] \cup {"intention_adjusted_score"} |->
                         IF key = "intention_adjusted_score"
                         THEN _adjust_score_by_intent(docs[n], intent_, docs[n]["semantic_score"])
                         ELSE docs[n][key]]])

\* the number of letters of a word of a query text
LetterCount(w) ==
    CASE w \in {"is", "an"} -> 2
      [] w \in {"the", "The"} -> 3
      [] w \in {"wise"} -> 4
      [] w \in {"happy", "Happy"} -> 5
      [] OTHER -> 8

keyword_stop_words ==
    {"the", "a", "an", "and", "or", "but", "in", "on", "at", "to", "for", "of", "with", "by"}

\* a query text is kept as its runs of letters, in order. The words of three
\* letters and more of the text in lower case, without the stop words;
\* re.findall on a vector raises TypeError
_extract_keywords(query_) ==
    IF query_.kind = "vector" THEN Raise
    ELSE LET words == [n \in 1..Len(query_.words) |-> Lower(query_.words[n])]
             IsKeyword(w) == LetterCount(w) >= 3 /\ w \notin keyword_stop_words
         IN  Return(SelectSeq(words, IsKeyword))

\* the unit of the lexical score: term_count / (term_count + 1.5) is 2/5, 4/7
\* and 6/9 for one, two and three occurrences, and 1.0 is ScoreUnit
ScoreUnit == 5 * 7 * 9

\* term_count / (term_count + 1.5), in ScoreUnit
TermScore(term_count) == (2 * term_count * ScoreUnit) \div (2 * term_count + 3)

RECURSIVE SumTermScores(_, _, _)
\* for term in query_terms: if term_count > 0: score += ...
SumTermScores(content, query_terms, n) ==
    IF n = 0 THEN 0
    ELSE SumTermScores(content, query_terms, n - 1)
            + (IF query_terms[n] \in DOMAIN content.occ /\ content.occ[query_terms[n]] > 0
               THEN TermScore(content.occ[query_terms[n]]) ELSE 0)

\* "not content or not query": an empty content gives 0.0 before the query is
\* looked at, the truth value of a vector raises ValueError, an empty text
\* gives 0.0; then min(score, 1.0)
_calculate_bm25_score(content, query_) ==
    IF content.length = 0 THEN [raised |-> FALSE, value |-> 0]
    ELSE IF query_.kind = "vector" THEN [raised |-> TRUE, value |-> 0]
    ELSE IF query_.words = <<>> THEN [raised |-> FALSE, value |-> 0]
    ELSE LET query_terms == _extract_keywords(query_).docs
         IN  [raised |-> FALSE,
              value |-> Min2(SumTermScores(content, query_terms, Len(query_terms)), ScoreUnit)]

\* its own try/except turns an index error into []
_search_by_keyword_intent(keyword, intent_, limit) ==
    IF "keyword_bm25" \in env.failing THEN <<>>
    ELSE LET rows == IndexQuery(IntentChunkType(intent_.type), keyword, limit)
         IN  [n \in 1..Len(rows) |-> Hit(rows[n], "keyword_bm25", 80)]

RECURSIVE SearchAll(_, _, _, _)
\* for keyword in keywords[:5]: all_results.extend(...)
SearchAll(keywords, intent_, limit, n) ==
    IF n = 0 THEN <<>>
    ELSE SearchAll(keywords, intent_, limit, n - 1)
            \o _search_by_keyword_intent(keywords[n], intent_, limit)

RECURSIVE InsertByScore(_, _)
InsertByScore(sorted, x) ==
    IF sorted = <<>> THEN <<x>>
    ELSE IF Head(sorted).score >= x.score
         THEN <<Head(sorted)>> \o InsertByScore(Tail(sorted), x)
         ELSE <<x>> \o sorted

RECURSIVE SortByScore(_)
\* sorted(all_results, key=score, reverse=True)
SortByScore(docs) ==
    IF docs = <<>> THEN <<>>
    ELSE InsertByScore(SortByScore(SubSeq(docs, 1, Len(docs) - 1)), docs[Len(docs)])

\* every document of the sorted list, duplicates included
KeepDuplicates(docs) == docs

RECURSIVE UniqueById(_)
\* the seen_ids loop: the first document of every id
UniqueById(docs) ==
    IF docs = <<>> THEN <<>>
    ELSE LET front == UniqueById(SubSeq(docs, 1, Len(docs) - 1))
             last  == docs[Len(docs)]
         IN  IF \E n \in 1..Len(front) : front[n].id = last.id THEN front
             ELSE Append(front, last)

_keyword_bm25_retrieval(query_, intent_, limit) ==
    LET extracted == IF intent_.target_word # "" THEN Return(<<intent_.target_word>>)
                     ELSE _extract_keywords(query_)
    IN  IF extracted.raised THEN Raise
        ELSE LET keywords == Take(extracted.docs, 5)
                 found    == IF keywords = <<>> THEN <<>>
                             ELSE SearchAll(keywords, intent_,
                                            (limit \div Len(extracted.docs)) + 1,
                                            Len(keywords))
                 scores   == [n \in 1..Len(found) |->
                                 _calculate_bm25_score(found[n].content, query_)]
             IN  IF \E n \in 1..Len(found) : scores[n].raised THEN Raise
                 ELSE Return(Take(UniqueById(SortByScore(
                         [n \in 1..Len(found) |->
                             [found[n] EXCEPT !.score = scores[n].value]])), limit))

\* a filter on the word alone, whatever the chunk type
intention_filters_by_word(intent_) ==
    IF intent_.target_word = "" \/ IntentChunkType(intent_.type) = "" THEN <<>>
    ELSE <<[chunk_type |-> "", word |-> intent_.target_word]>>

\* the filters of the calls of milvus_client.query the function makes: none
\* without a target word or for another type than the three, else the one
\* of the branch of the type
intention_filters(intent_) ==
    IF intent_.target_word = "" \/ IntentChunkType(intent_.type) = "" THEN <<>>
    ELSE <<[chunk_type |-> IntentChunkType(intent_.type), word |-> intent_.target_word]>>

\* its own try/except turns an index error into []
_intention_specific_retrieval(query_, intent_, limit) ==
    IF intent_.target_word = "" THEN Return(<<>>)
    ELSE IF intention_filters(intent_) = <<>> THEN Return(<<>>)
    ELSE IF "intention_aware" \in env.failing THEN Return(<<>>)
    ELSE LET filter == intention_filters(intent_)[1]
             rows   == IndexQuery(filter.chunk_type, filter.word, limit)
         IN  Return([n \in 1..Len(rows) |-> Hit(rows[n], "intention_aware", 100)])

-----------------------------------------------------------------------------
(* The fine rerank *)

\* a rerank score whose content bonus stops at 0.2
RerankScoreCapped(doc, intent_) ==
      (IF intent_.target_word # "" /\ Lower(intent_.target_word) = Lower(doc.word)
       THEN 30 ELSE 0)
    + (IF IntentChunkType(intent_.type) # ""
          /\ doc.chunk_type = IntentChunkType(intent_.type)
       THEN 40 ELSE 0)
    + (IF intent_.type = "synonym" /\ doc.content.marker THEN 20 ELSE 0)
    + (IF 50 <= doc.content.length /\ doc.content.length <= 500 THEN 10
       ELSE IF doc.content.length > 1000 THEN 0 - 10
       ELSE 0)

\* rerank_score of one document, in hundredths
RerankScore(doc, intent_) ==
      (IF intent_.target_word # "" /\ Lower(intent_.target_word) = Lower(doc.word)
       THEN 30 ELSE 0)
    + (IF IntentChunkType(intent_.type) # ""
          /\ doc.chunk_type = IntentChunkType(intent_.type)
       THEN 40 ELSE 0)
    + (IF intent_.type = "synonym"
       THEN (IF doc.content.marker THEN 20 ELSE 0)
            + Min2((IF doc.content.marker THEN doc.content.colons ELSE 0) * 5, 10)
       ELSE 0)
    + (IF 50 <= doc.content.length /\ doc.content.length <= 500 THEN 10
       ELSE IF doc.content.length > 1000 THEN 0 - 10
       ELSE 0)

_detailed_rerank(query_, candidates, intent_) ==
    SortByFusionScore(
        [n \in 1..Len(candidates) |->
            [candidates[n] EXCEPT !.fusion_score = @ + RerankScore(candidates[n], intent_) * Scale]])

-----------------------------------------------------------------------------
(* A direct call of Retriever._intention_aware_fusion on any result lists *)

HitLists(strategy, n) ==
    {[m \in 1..Len(s) |-> Hit(s[m], strategy, 100)] : s \in SeqsUpTo(FusionIds, n)}

Configurations == {DefaultWeights, EqualWeights}

NoEnv == [embed_ok |-> TRUE, failing |-> {}, hanging |-> {}, semantic_hits |-> <<>>]

InitFusion ==
    /\ retrieval_strategies \in Configurations
    /\ env = NoEnv
    /\ strategies = DefaultStrategies
    /\ intent \in [type : {"general", "synonym"}, target_word : {"sensible"}]
    /\ top_k = 0
    /\ \E sem \in HitLists("semantic", MaxLen) :
         \E kw \in HitLists("keyword_bm25", Min2(MaxLen, MaxHits - Len(sem))) :
           \E ia \in HitLists("intention_aware", Min2(MaxLen, MaxHits - Len(sem) - Len(kw))) :
             all_results = [s \in Strategies |->
                              CASE s = "semantic" -> sem
                                [] s = "keyword_bm25" -> kw
                                [] OTHER -> ia]
    /\ caught = {}
    /\ cursor = 0
    /\ fused_results = <<>>
    /\ reranked_results = <<>>
    /\ returns = <<>>
    /\ NotRecognizing
    /\ pc = "fusion"

retrieval_strategies_written_back(config, strats, intent_) ==
    [s \in Strategies |->
        IF s \in Range(strats)
        THEN [config[s] EXCEPT !.weight = _adjust_strategy_weight_by_intent(s, intent_, @)]
        ELSE config[s]]

\* the fusion reads the configured weight into a local and writes nothing back
retrieval_strategies_after_fusion(config, strats, intent_) == config

Fuse ==
    /\ pc = "fusion"
    /\ fused_results' = _intention_aware_fusion(all_results, strategies, intent,
                                                retrieval_strategies)
    /\ retrieval_strategies' =
          retrieval_strategies_after_fusion(retrieval_strategies, strategies, intent)
    /\ pc' = "fused"
    /\ UNCHANGED <<kept, recognizer, inputs, all_results, caught, cursor, reranked_results, returns>>

NextFusion == Fuse

SpecFusion == InitFusion /\ [][NextFusion]_vars

-----------------------------------------------------------------------------
(* Retriever.multi_way_retrieve, run MaxRuns times on the same arguments *)

\* how often the same call is repeated
MaxRuns == 2

\* the query argument: empty, blank (a space, a tab and a space), and a word
RetrievalQueries ==
    {<<>>, <<32>>, <<9, 32>>, <<115, 101, 110, 115, 105, 98, 108, 101>> (* sensible *)}

Requests ==
    {DefaultStrategies,
     <<"keyword_bm25", "intention_aware">>,
     <<"exact_match", "semantic">>}

Init ==
    /\ retrieval_strategies \in Configurations
    /\ env \in [embed_ok : BOOLEAN, failing : SUBSET Strategies,
                hanging : {{}} \cup {{s} : s \in Strategies},
                semantic_hits : {<<>>, <<"d", "a">>}]
    /\ strategies \in Requests
    /\ intent \in [type : {"general", "synonym", "definition", "example"},
                   target_word : {"", "sensible", "Sensible"}]
    /\ top_k \in {1, 2}
    /\ all_results = [s \in {} |-> <<>>]
    /\ caught = {}
    /\ cursor = 1
    /\ fused_results = <<>>
    /\ reranked_results = <<>>
    /\ returns = <<>>
    /\ query \in RetrievalQueries
    /\ keyword_intent = None
    /\ semantic_intent = None
    /\ pattern_intent = None
    /\ recognized = None
    /\ intent_recognizer = None
    /\ served = <<>>
    /\ validated = None
    /\ ExtrasIdle
    /\ pc = "encode"

\* query_vector = self.embedding_model.encode(query), outside every try
Encode ==
    /\ pc = "encode"
    /\ env.embed_ok
    /\ pc' = "execute"
    /\ UNCHANGED <<kept, recognizer, retrieval_strategies, inputs, all_results, caught, cursor, fused_results,
                   reranked_results, returns>>

EncodeRaises ==
    /\ pc = "encode"
    /\ ~env.embed_ok
    /\ returns' = Append(returns, [raised |-> TRUE, value |-> <<>>])
    /\ pc' = "raised"
    /\ UNCHANGED <<kept, recognizer, retrieval_strategies, inputs, all_results, caught, cursor, fused_results,
                   reranked_results>>

after_strategy_exception_propagate == "raised"

\* except Exception: results[strategy] = [] and the loop goes on
after_strategy_exception == "execute"

\* whether the strategy gets as far as its call of the index
CallsIndex(strategy, intent_) ==
    CASE strategy = "semantic"     -> TRUE
      [] strategy = "keyword_bm25" -> intent_.target_word # ""
      [] OTHER -> intent_.target_word # "" /\ IntentChunkType(intent_.type) # ""

\* the call of the strategy does not return: its call of the index blocks, and
\* nothing bounds the time the loop waits for it
Hangs(strategy) == strategy \in env.hanging /\ CallsIndex(strategy, intent)

\* one turn of the loop for a strategy the loop has a branch for
Execute(strategy, outcome) ==
    /\ pc = "execute"
    /\ cursor <= Len(strategies)
    /\ strategies[cursor] = strategy
    /\ ~Hangs(strategy)
    /\ all_results' = [s \in DOMAIN all_results \cup {strategy} |->
                          IF s = strategy THEN outcome.docs ELSE all_results[s]]
    /\ caught' = IF outcome.raised THEN caught \cup {strategy} ELSE caught
    /\ cursor' = cursor + 1
    /\ pc' = IF outcome.raised THEN after_strategy_exception ELSE "execute"
    /\ returns' = IF outcome.raised /\ after_strategy_exception = "raised"
                  THEN Append(returns, [raised |-> TRUE, value |-> <<>>])
                  ELSE returns
    /\ UNCHANGED <<kept, recognizer, retrieval_strategies, inputs, fused_results, reranked_results>>

ExecuteSemantic ==
    Execute("semantic",
            _semantic_retrieval(QueryVector, intent, retrieval_strategies["semantic"].top_k))

ExecuteKeywordBm25 ==
    Execute("keyword_bm25",
            _keyword_bm25_retrieval(QueryVector, intent,
                                    retrieval_strategies["keyword_bm25"].top_k))

ExecuteIntentionAware ==
    Execute("intention_aware",
            _intention_specific_retrieval(QueryVector, intent,
                                          retrieval_strategies["intention_aware"].top_k))

\* a requested name the loop has no branch for: nothing is stored
ExecuteUnknown ==
    /\ pc = "execute"
    /\ cursor <= Len(strategies)
    /\ strategies[cursor] \notin Strategies
    /\ cursor' = cursor + 1
    /\ UNCHANGED <<kept, recognizer, retrieval_strategies, inputs, all_results, caught, fused_results,
                   reranked_results, returns, pc>>

ExecuteDone ==
    /\ pc = "execute"
    /\ cursor > Len(strategies)
    /\ pc' = "fusion"
    /\ UNCHANGED <<kept, recognizer, retrieval_strategies, inputs, all_results, caught, cursor, fused_results,
                   reranked_results, returns>>

\* the whole fused list in place of the slice
rerank_every_candidate(fused, limit) == fused

\* fused_results[:top_k * 3]
rerank_candidates(fused, limit) == Take(fused, limit * 3)

\* reranked_results = _detailed_rerank(query, fused_results[:top_k * 3], intent)
Rerank ==
    /\ pc = "fused"
    /\ reranked_results' = _detailed_rerank(QueryVector, rerank_candidates(fused_results, top_k), intent)
    /\ pc' = "reranked"
    /\ UNCHANGED <<kept, recognizer, retrieval_strategies, inputs, all_results, caught, cursor, fused_results,
                   returns>>

\* return reranked_results[:top_k]
ReturnResults ==
    /\ pc = "reranked"
    /\ returns' = Append(returns, [raised |-> FALSE, value |-> Take(reranked_results, top_k)])
    /\ pc' = "returned"
    /\ UNCHANGED <<kept, recognizer, retrieval_strategies, inputs, all_results, caught, cursor, fused_results,
                   reranked_results>>

\* the same call once more: the locals of the finished call are gone
CallAgain ==
    /\ pc \in {"returned", "raised"}
    /\ Len(returns) < MaxRuns
    /\ all_results' = [s \in {} |-> <<>>]
    /\ caught' = {}
    /\ cursor' = 1
    /\ fused_results' = <<>>
    /\ reranked_results' = <<>>
    /\ pc' = "encode"
    /\ UNCHANGED <<kept, recognizer, retrieval_strategies, inputs, returns>>

Next ==
    \/ Encode
    \/ EncodeRaises
    \/ ExecuteSemantic
    \/ ExecuteKeywordBm25
    \/ ExecuteIntentionAware
    \/ ExecuteUnknown
    \/ ExecuteDone
    \/ Fuse
    \/ Rerank
    \/ ReturnResults
    \/ CallAgain

Spec == Init /\ [][Next]_vars

\* the interpreter goes on with the call as long as it has a step to take
SpecLive == Spec /\ WF_vars(Next)

-----------------------------------------------------------------------------
(* Properties of the fusion *)

IdsOf(docs) == {docs[i].id : i \in 1..Len(docs)}

\* the rank enumerate() leaves for doc_id in one list: its position, the last
\* one when the list holds the id more than once (0-based)
RankIn(docs, doc_id) ==
    (CHOOSE i \in 1..Len(docs) :
        /\ docs[i].id = doc_id
        /\ \A j \in 1..Len(docs) : docs[j].id = doc_id => j <= i) - 1

\* the requested strategies whose result list holds doc_id
Returning(doc_id) ==
    {s \in Range(strategies) : s \in DOMAIN all_results /\ doc_id \in IdsOf(all_results[s])}

RECURSIVE SumOver(_, _)
SumOver(S, f) ==
    IF S = {} THEN 0
    ELSE LET x == CHOOSE y \in S : TRUE IN f[x] + SumOver(S \ {x}, f)

\* sum over the returning strategies of effective_weight / (rank + k)
ExpectedFusionScore(doc_id, weights) ==
    SumOver(Returning(doc_id),
            [s \in Strategies |->
                IF doc_id \in IdsOf(all_results[s])
                THEN (_adjust_strategy_weight_by_intent(s, intent, weights[s].weight) * Scale)
                        \div (RankIn(all_results[s], doc_id) + k)
                ELSE 0])

ScoreIn(fused, doc_id) ==
    IF doc_id \in IdsOf(fused)
    THEN fused[CHOOSE i \in 1..Len(fused) : fused[i].id = doc_id].fusion_score
    ELSE 0

\* C1: the fused list holds each candidate id at most once, and holds every
\* id some requested strategy returned
C1_FusedIdsUnique ==
    pc = "fused" =>
        /\ \A i, j \in 1..Len(fused_results) :
              fused_results[i].id = fused_results[j].id => i = j
        /\ IdsOf(fused_results) = {id \in FusionIds : Returning(id) # {}}

\* an id returned by two strategies, and twice by one of them, has been fused
C1_Witness ==
    /\ pc = "fused"
    /\ \E id \in FusionIds :
          /\ Cardinality(Returning(id)) >= 2
          /\ \E s \in Strategies : \E i, j \in 1..Len(all_results[s]) :
                i # j /\ all_results[s][i].id = id /\ all_results[s][j].id = id

IdList(docs) == [i \in 1..Len(docs) |-> docs[i].id]

PartialOverlapScenario ==
    /\ retrieval_strategies = EqualWeights
    /\ intent.type = "general"
    /\ IdList(all_results["semantic"]) = <<"a", "b", "c">>
    /\ IdList(all_results["keyword_bm25"]) = <<"b", "d">>
    /\ all_results["intention_aware"] = <<>>

\* C2: every fusion_score is the sum, over the requested strategies that
\* returned the candidate, of effective weight / (rank + k); a candidate of a
\* single strategy keeps its one contribution; in the partial-overlap scenario
\* b scores above a and above d
C2_FusionScoreIsWeightedRRF ==
    pc = "fused" =>
        /\ \A i \in 1..Len(fused_results) :
              /\ fused_results[i].fusion_score =
                    ExpectedFusionScore(fused_results[i].id, retrieval_strategies)
              /\ fused_results[i].fusion_score > 0
        /\ PartialOverlapScenario =>
              /\ ScoreIn(fused_results, "b") > ScoreIn(fused_results, "a")
              /\ ScoreIn(fused_results, "b") > ScoreIn(fused_results, "d")
              /\ ScoreIn(fused_results, "d") > 0

C2_Witness == pc = "fused" /\ PartialOverlapScenario

PositionIn(seq, x) == CHOOSE n \in 1..Len(seq) : seq[n] = x

\* candidate ids are strings; their order is the alphabetical one
IdKey(id) == PositionIn(IdOrder, id)

FirstRankIn(docs, doc_id) ==
    CHOOSE i \in 1..Len(docs) :
        /\ docs[i].id = doc_id
        /\ \A j \in 1..Len(docs) : docs[j].id = doc_id => i <= j

\* when the loops of the fusion first meet doc_id: the place in the request of
\* the first strategy that returned it, then its first place in that list
FirstSeen(doc_id) ==
    LET first == CHOOSE n \in 1..Len(strategies) :
                    /\ strategies[n] \in Returning(doc_id)
                    /\ \A m \in 1..Len(strategies) :
                          strategies[m] \in Returning(doc_id) => n <= m
    IN  first * (MaxLen + 1) + FirstRankIn(all_results[strategies[first]], doc_id)

\* C5 as stated: non-increasing fusion_score, equal scores in candidate id order
C5_TiesByCandidateId ==
    pc = "fused" =>
        \A i, j \in 1..Len(fused_results) :
            i < j =>
                \/ fused_results[i].fusion_score > fused_results[j].fusion_score
                \/ /\ fused_results[i].fusion_score = fused_results[j].fusion_score
                   /\ IdKey(fused_results[i].id) < IdKey(fused_results[j].id)

\* C5 as amended: non-increasing fusion_score, equal scores in the order in
\* which the fusion first met the candidates (strategy by strategy in the
\* order requested, each list from its top)
C5_TiesByFirstSeen ==
    pc = "fused" =>
        \A i, j \in 1..Len(fused_results) :
            i < j =>
                \/ fused_results[i].fusion_score > fused_results[j].fusion_score
                \/ /\ fused_results[i].fusion_score = fused_results[j].fusion_score
                   /\ FirstSeen(fused_results[i].id) < FirstSeen(fused_results[j].id)

\* two candidates with equal scores were fused, the one with the later id first
C5_Witness ==
    /\ pc = "fused"
    /\ \E i, j \in 1..Len(fused_results) :
          /\ i < j
          /\ fused_results[i].fusion_score = fused_results[j].fusion_score
          /\ IdKey(fused_results[i].id) > IdKey(fused_results[j].id)

\* C6: raising the configured weight of one strategy S never lowers a fused
\* score, leaves the score of every candidate S did not return unchanged, and
\* so never narrows the lead of a candidate of S over a candidate absent from S
C6_WeightMonotone ==
    pc = "fused" =>
        \A S \in Strategies : \A w \in WeightValues :
            w > retrieval_strategies[S].weight =>
                LET raised == _intention_aware_fusion(all_results, strategies, intent,
                                  [retrieval_strategies EXCEPT ![S].weight = w])
                    inS    == IdsOf(all_results[S])
                IN  /\ IdsOf(raised) = IdsOf(fused_results)
                    /\ \A c \in IdsOf(fused_results) :
                          /\ ScoreIn(raised, c) >= ScoreIn(fused_results, c)
                          /\ c \notin inS => ScoreIn(raised, c) = ScoreIn(fused_results, c)
                          /\ c \in inS /\ S \in Range(strategies) =>
                                ScoreIn(raised, c) > ScoreIn(fused_results, c)
                    /\ \A c \in inS : \A d \in IdsOf(fused_results) \ inS :
                          ScoreIn(raised, c) - ScoreIn(raised, d)
                            >= ScoreIn(fused_results, c) - ScoreIn(fused_results, d)

\* a strategy whose weight can be raised returned one candidate and not another
C6_Witness ==
    /\ pc = "fused"
    /\ \E S \in Strategies :
          /\ \E w \in WeightValues : w > retrieval_strategies[S].weight
          /\ IdsOf(all_results[S]) # {}
          /\ IdsOf(fused_results) \ IdsOf(all_results[S]) # {}

-----------------------------------------------------------------------------
(* Properties of multi_way_retrieve *)

\* the requested strategies the loop has a branch for
RequestedKnown == Range(strategies) \cap Strategies

LastReturn == returns[Len(returns)]

-----------------------------------------------------------------------------
(* Text.  A str is the sequence of its Unicode code points; the queries of
   the model are written in ASCII, CJK ideographs and CJK punctuation.  A
   character class of a regex is the set of its characters and whether the
   class is a negated one. *)

\* the characters of str.isspace() and of \s
Whitespace ==
    {9, 10, 11, 12, 13, 28, 29, 30, 31, 32, 133, 160, 5760, 8232, 8233, 8239, 8287, 12288}
        \cup (8192..8202)

\* \s
Space == [chars |-> Whitespace, negated |-> FALSE]

\* [A-Za-z]
AsciiLetter == [chars |-> (65..90) \cup (97..122), negated |-> FALSE]

\* [一-鿿]
CJK == [chars |-> 19968..40959, negated |-> FALSE]

\* the \w of re on the characters of the model
WordChar ==
    [chars |-> (65..90) \cup (97..122) \cup (48..57) \cup {95} \cup (19968..40959),
     negated |-> FALSE]

\* the . of re: anything but a newline
Dot == [chars |-> {10}, negated |-> TRUE]

\* the character is one of the class
InClass(class, c) == (c \in class.chars) # class.negated

lower_char(c) == IF c \in 65..90 THEN c + 32 ELSE c

\* str.lower()
lower(s) == [n \in 1..Len(s) |-> lower_char(s[n])]

\* no string counting as upper case
never_upper(s) == FALSE

\* str.isupper(): a cased character, and every cased character upper case
isupper(s) ==
    /\ \E n \in 1..Len(s) : s[n] \in 65..90
    /\ \A n \in 1..Len(s) : ~(s[n] \in 97..122)

MinOf(S) == CHOOSE x \in S : \A y \in S : x <= y

MaxOf(S) == CHOOSE x \in S : \A y \in S : y <= x

MinOrZero(S) == IF S = {} THEN 0 ELSE MinOf(S)

\* the second of two strings unless it is empty
OrSecond(x, y) == IF y # <<>> THEN y ELSE x

\* x or y on strings
Or(x, y) == IF x # <<>> THEN x ELSE y

\* s[at:].startswith(sub), at counted from 1
StartsWithAt(s, sub, at) ==
    /\ at >= 1
    /\ at + Len(sub) - 1 <= Len(s)
    /\ \A m \in 1..Len(sub) : s[at + m - 1] = sub[m]

\* the same under re.IGNORECASE
StartsWithAtIgnoreCase(s, sub, at) ==
    /\ at >= 1
    /\ at + Len(sub) - 1 <= Len(s)
    /\ \A m \in 1..Len(sub) : lower_char(s[at + m - 1]) = lower_char(sub[m])

\* sub in s
Contains(sub, s) ==
    \E at \in 1..(Len(s) - Len(sub) + 1) : \A m \in 1..Len(sub) : s[at + m - 1] = sub[m]

\* s.find(sub): counted from 0, -1 when sub is not in s
find(s, sub) ==
    MinOrZero({a \in 1..(Len(s) - Len(sub) + 1) : \A m \in 1..Len(sub) : s[a + m - 1] = sub[m]})
        - 1

\* str.strip()
strip(s) ==
    LET Between(keep) == IF keep = {} THEN <<>> ELSE SubSeq(s, MinOf(keep), MaxOf(keep))
    IN  Between({n \in 1..Len(s) : s[n] \notin Whitespace})

\* how many characters of s are of a class
CountOf(s, class) == Cardinality({n \in 1..Len(s) : InClass(class, s[n])})

RECURSIVE SortedSeq(_)
\* the numbers of a set in rising order
SortedSeq(S) == IF S = {} THEN <<>> ELSE <<MinOf(S)>> \o SortedSeq(S \ {MinOf(S)})

\* how many characters of a class stand in a row from a place on
RunLength(s, at, class) ==
    IF at > Len(s) \/ ~InClass(class, s[at]) THEN 0
    ELSE MinOf({b \in at..Len(s) : b = Len(s) \/ ~InClass(class, s[b + 1])}) - at + 1

\* the maximal runs of characters of a class, left to right, as [from, to]
\* with both ends counted from 1
Runs(s, class) ==
    LET From(starts) ==
            [n \in 1..Len(starts) |->
                [from |-> starts[n], to |-> starts[n] + RunLength(s, starts[n], class) - 1]]
    IN  From(SortedSeq({n \in 1..Len(s) :
                           InClass(class, s[n]) /\ (n = 1 \/ ~InClass(class, s[n - 1]))}))

\* the parts of s that a list of runs marks
Pieces(s, runs) == [n \in 1..Len(runs) |-> SubSeq(s, runs[n].from, runs[n].to)]

\* str.split()
split(s) == Pieces(s, Runs(s, [chars |-> Whitespace, negated |-> TRUE]))

\* the first alternative of a list that s holds at a place, 0 when none does
FirstAlternativeAt(s, alternatives, at) ==
    MinOrZero({a \in 1..Len(alternatives) : StartsWithAt(s, alternatives[a], at)})

\* a fraction in lowest terms
Rat(n, d) ==
    IF n = 0 THEN [num |-> 0, den |-> 1]
    ELSE [num |-> n \div GCD(n, d), den |-> d \div GCD(n, d)]

RatAdd(a, b) == Rat(a.num * b.den + b.num * a.den, a.den * b.den)

RatMul(a, b) == Rat(a.num * b.num, a.den * b.den)

RatLess(a, b) == a.num * b.den < b.num * a.den

\* the first place of a list whose score no other place exceeds: max(..., key=...)
FirstBest(scores) ==
    MinOf({n \in 1..Len(scores) : \A m \in 1..Len(scores) : scores[m] <= scores[n]})

\* the first place of a list of fractions that no other place exceeds
FirstBestRat(scores) ==
    MinOf({n \in 1..Len(scores) : \A m \in 1..Len(scores) : ~RatLess(scores[n], scores[m])})

-----------------------------------------------------------------------------
(* The intent tables of prompt.py *)

\* the keys of INTENT_KEYWORDS and of INTENT_EXAMPLES, in the order of the dicts
IntentLabels ==
    <<"synonym", "definition", "example", "phrase",
      "pronunciation", "etymology", "comparison",
      "antonym", "usage_note", "word_family", "formality">>

INTENT_EXAMPLES ==
    [synonym |-> <<
        <<115, 101, 110, 115, 105, 98, 108, 101, 30340, 21516, 20041, 35789, 26377, 21738, 20123>> (* sensible的同义词有哪些 *),
        <<98, 101, 97, 117, 116, 105, 102, 117, 108, 30340, 36817, 20041, 35789>> (* beautiful的近义词 *),
        <<19982, 104, 97, 112, 112, 121, 24847, 24605, 30456, 36817, 30340, 35789, 27719>> (* 与happy意思相近的词汇 *),
        <<115, 109, 97, 114, 116, 30340, 21516, 20041, 35789, 26159, 20160, 20040>> (* smart的同义词是什么 *),
        <<21015, 20986, 105, 109, 112, 111, 114, 116, 97, 110, 116, 30340, 21516, 20041, 35789>> (* 列出important的同义词 *),
        <<104, 97, 112, 112, 121, 30340, 30456, 20284, 35789, 26377, 21738, 20123>> (* happy的相似词有哪些 *),
        <<32473, 20986, 115, 97, 100, 30340, 26367, 20195, 35789>> (* 给出sad的替代词 *),
        <<26377, 20160, 20040, 35789, 21487, 20197, 26367, 25442, 103, 111, 111, 100>> (* 有什么词可以替换good *),
        <<105, 110, 116, 101, 108, 108, 105, 103, 101, 110, 116, 30340, 21516, 31867, 35789>> (* intelligent的同类词 *),
        <<98, 105, 103, 30340, 21516, 20041, 35789, 21644, 36817, 20041, 35789>> (* big的同义词和近义词 *)
     >>,
     definition |-> <<
        <<115, 101, 110, 115, 105, 98, 108, 101, 30340, 23450, 20041, 26159, 20160, 20040>> (* sensible的定义是什么 *),
        <<101, 120, 112, 108, 97, 105, 110, 30340, 24847, 24605>> (* explain的意思 *),
        <<20160, 20040, 26159, 109, 101, 116, 97, 112, 104, 111, 114>> (* 什么是metaphor *),
        <<99, 108, 97, 114, 105, 102, 121, 36825, 20010, 21333, 35789, 20160, 20040, 24847, 24605>> (* clarify这个单词什么意思 *),
        <<32473, 19968, 19979, 99, 111, 109, 112, 114, 101, 104, 101, 110, 115, 105, 118, 101, 30340, 23450, 20041>> (* 给一下comprehensive的定义 *),
        <<115, 101, 110, 115, 105, 98, 108, 101, 30340, 37322, 20041, 26377, 21738, 20123>> (* sensible的释义有哪些 *),
        <<97, 109, 98, 105, 103, 117, 105, 116, 121, 26159, 20160, 20040, 24847, 24605>> (* ambiguity是什么意思 *),
        <<20160, 20040, 21483, 112, 97, 114, 97, 100, 111, 120>> (* 什么叫paradox *),
        <<101, 112, 104, 101, 109, 101, 114, 97, 108, 30340, 21547, 20041>> (* ephemeral的含义 *),
        <<114, 101, 115, 105, 108, 105, 101, 110, 116, 20160, 20040, 24847, 24605>> (* resilient什么意思 *),
        <<32763, 35793, 19968, 19979, 115, 101, 114, 101, 110, 100, 105, 112, 105, 116, 121>> (* 翻译一下serendipity *),
        <<36825, 20010, 35789, 21861, 24847, 24605>> (* 这个词啥意思 *)
     >>,
     example |-> <<
        <<115, 101, 110, 115, 105, 98, 108, 101, 30340, 29992, 27861, 20363, 21477>> (* sensible的用法例句 *),
        <<29992, 100, 101, 109, 111, 110, 115, 116, 114, 97, 116, 101, 36896, 20010, 21477, 23376>> (* 用demonstrate造个句子 *),
        <<105, 108, 108, 117, 115, 116, 114, 97, 116, 101, 30340, 20363, 21477, 26377, 21738, 20123>> (* illustrate的例句有哪些 *),
        <<23637, 31034, 19968, 19979, 117, 116, 105, 108, 105, 122, 101, 30340, 29992, 27861>> (* 展示一下utilize的用法 *),
        <<112, 114, 111, 118, 105, 100, 101, 32, 97, 110, 32, 101, 120, 97, 109, 112, 108, 101, 32, 111, 102, 32, 97, 110, 97, 108, 121, 122, 101>> (* provide an example of analyze *),
        <<32473, 112, 101, 114, 115, 101, 118, 101, 114, 97, 110, 99, 101, 20030, 20010, 20363, 21477>> (* 给perseverance举个例句 *),
        <<97, 109, 98, 105, 103, 117, 105, 116, 121, 24590, 20040, 36896, 21477>> (* ambiguity怎么造句 *),
        <<29992, 36825, 20010, 35789, 36896, 20010, 21477>> (* 用这个词造个句 *),
        <<20030, 20960, 20010, 109, 105, 116, 105, 103, 97, 116, 101, 30340, 20363, 23376>> (* 举几个mitigate的例子 *),
        <<117, 115, 97, 103, 101, 30340, 29992, 27861, 20030, 20363>> (* usage的用法举例 *)
     >>,
     phrase |-> <<
        <<115, 101, 110, 115, 105, 98, 108, 101, 30340, 24120, 29992, 25645, 37197>> (* sensible的常用搭配 *),
        <<109, 97, 107, 101, 30340, 30701, 35821, 25645, 37197>> (* make的短语搭配 *),
        <<116, 97, 107, 101, 30340, 24120, 35265, 35789, 32452>> (* take的常见词组 *),
        <<98, 114, 101, 97, 107, 30340, 22266, 23450, 25645, 37197>> (* break的固定搭配 *),
        <<103, 101, 116, 30340, 24120, 29992, 30701, 35821>> (* get的常用短语 *),
        <<108, 111, 111, 107, 30340, 21160, 35789, 25645, 37197>> (* look的动词搭配 *),
        <<103, 105, 118, 101, 30340, 20171, 35789, 25645, 37197>> (* give的介词搭配 *),
        <<114, 117, 110, 30340, 35789, 32452, 26377, 21738, 20123>> (* run的词组有哪些 *),
        <<99, 111, 109, 109, 111, 110, 30340, 24120, 29992, 30701, 35821>> (* common的常用短语 *),
        <<98, 117, 115, 105, 110, 101, 115, 115, 30340, 20064, 24815, 25645, 37197>> (* business的习惯搭配 *),
        <<33521, 35821, 35789, 20249, 26597, 35810>> (* 英语词伙查询 *)
     >>,
     pronunciation |-> <<
        <<115, 101, 110, 115, 105, 98, 108, 101, 24590, 20040, 35835>> (* sensible怎么读 *),
        <<112, 114, 111, 110, 117, 110, 99, 105, 97, 116, 105, 111, 110, 30340, 21457, 38899>> (* pronunciation的发音 *),
        <<115, 99, 104, 101, 100, 117, 108, 101, 30340, 32654, 24335, 21457, 38899>> (* schedule的美式发音 *),
        <<35835, 19968, 19979, 101, 110, 116, 114, 101, 112, 114, 101, 110, 101, 117, 114>> (* 读一下entrepreneur *),
        <<36825, 20010, 21333, 35789, 24590, 20040, 24565>> (* 这个单词怎么念 *),
        <<99, 111, 108, 111, 110, 101, 108, 21643, 35835>> (* colonel咋读 *),
        <<38899, 26631, 24590, 20040, 35835>> (* 音标怎么读 *),
        <<33521, 24335, 21457, 38899, 24590, 20040, 35835>> (* 英式发音怎么读 *),
        <<24565, 19968, 19979, 36825, 20010, 21333, 35789>> (* 念一下这个单词 *),
        <<35835, 38899, 26159, 20160, 20040>> (* 读音是什么 *)
     >>,
     etymology |-> <<
        <<115, 101, 110, 115, 105, 98, 108, 101, 30340, 35789, 28304>> (* sensible的词源 *),
        <<101, 116, 121, 109, 111, 108, 111, 103, 121, 30340, 35789, 26681>> (* etymology的词根 *),
        <<112, 104, 111, 116, 111, 103, 114, 97, 112, 104, 30340, 35789, 28304, 23398>> (* photograph的词源学 *),
        <<36825, 20010, 21333, 35789, 30340, 26469, 28304>> (* 这个单词的来源 *),
        <<35789, 26681, 35789, 32512, 20998, 26512>> (* 词根词缀分析 *),
        <<112, 104, 105, 108, 111, 115, 111, 112, 104, 121, 30340, 36215, 28304>> (* philosophy的起源 *),
        <<98, 105, 111, 108, 111, 103, 121, 30340, 35789, 26681, 26159, 20160, 20040>> (* biology的词根是什么 *),
        <<36825, 20010, 35789, 20174, 21738, 37324, 26469, 30340>> (* 这个词从哪里来的 *),
        <<101, 116, 121, 109, 111, 108, 111, 103, 121, 30340, 30001, 26469>> (* etymology的由来 *),
        <<21333, 35789, 21382, 21490, 36215, 28304>> (* 单词历史起源 *)
     >>,
     comparison |-> <<
        <<115, 101, 110, 115, 105, 98, 108, 101, 21644, 115, 101, 110, 115, 105, 116, 105, 118, 101, 30340, 21306, 21035>> (* sensible和sensitive的区别 *),
        <<97, 102, 102, 101, 99, 116, 21644, 101, 102, 102, 101, 99, 116, 30340, 19981, 21516>> (* affect和effect的不同 *),
        <<99, 111, 109, 112, 97, 114, 101, 21644, 99, 111, 110, 116, 114, 97, 115, 116, 30340, 21306, 21035>> (* compare和contrast的区别 *),
        <<101, 99, 111, 110, 111, 109, 105, 99, 21644, 101, 99, 111, 110, 111, 109, 105, 99, 97, 108, 30340, 24046, 24322>> (* economic和economical的差异 *),
        <<36825, 20004, 20010, 35789, 26377, 20160, 20040, 19981, 21516>> (* 这两个词有什么不同 *),
        <<98, 105, 103, 21644, 108, 97, 114, 103, 101, 30340, 21306, 21035, 22312, 21738>> (* big和large的区别在哪 *),
        <<115, 97, 121, 21644, 116, 101, 108, 108, 26377, 20309, 19981, 21516>> (* say和tell有何不同 *),
        <<104, 111, 117, 115, 101, 21644, 104, 111, 109, 101, 24046, 21035>> (* house和home差别 *),
        <<99, 111, 109, 112, 97, 114, 101, 23545, 27604, 99, 111, 109, 112, 97, 114, 101, 32, 116, 111>> (* compare对比compare to *),
        <<20998, 36776, 36825, 20004, 20010, 35789>> (* 分辨这两个词 *)
     >>,
     antonym |-> <<
        <<104, 97, 112, 112, 121, 30340, 21453, 20041, 35789>> (* happy的反义词 *),
        <<98, 105, 103, 30340, 30456, 21453, 35789, 26159, 20160, 20040>> (* big的相反词是什么 *),
        <<98, 101, 97, 117, 116, 105, 102, 117, 108, 30340, 23545, 31435, 35789>> (* beautiful的对立词 *),
        <<102, 97, 115, 116, 30340, 21453, 20041, 35789, 26377, 21738, 20123>> (* fast的反义词有哪些 *),
        <<21015, 20986, 114, 105, 99, 104, 30340, 21453, 20041, 35789>> (* 列出rich的反义词 *),
        <<112, 111, 115, 105, 116, 105, 118, 101, 30340, 30456, 21453, 35789>> (* positive的相反词 *),
        <<97, 110, 116, 111, 110, 121, 109, 32, 111, 102, 32, 103, 111, 111, 100>> (* antonym of good *),
        <<108, 105, 103, 104, 116, 30340, 21453, 20041, 35789>> (* light的反义词 *)
     >>,
     usage_note |-> <<
        <<104, 111, 119, 101, 118, 101, 114, 30340, 29992, 27861>> (* however的用法 *),
        <<115, 117, 103, 103, 101, 115, 116, 24590, 20040, 29992>> (* suggest怎么用 *),
        <<36825, 20010, 21333, 35789, 20351, 29992, 27880, 24847>> (* 这个单词使用注意 *),
        <<114, 101, 99, 111, 109, 109, 101, 110, 100, 30340, 35821, 27861>> (* recommend的语法 *),
        <<22312, 20160, 20040, 22330, 21512, 29992, 36825, 20010, 35789>> (* 在什么场合用这个词 *),
        <<117, 115, 97, 103, 101, 30340, 29992, 27861, 35828, 26126>> (* usage的用法说明 *),
        <<20351, 29992, 22330, 26223, 26377, 21738, 20123>> (* 使用场景有哪些 *),
        <<35821, 27861, 35268, 21017, 26159, 20160, 20040>> (* 语法规则是什么 *),
        <<36866, 29992, 22330, 21512>> (* 适用场合 *)
     >>,
     word_family |-> <<
        <<98, 101, 97, 117, 116, 105, 102, 117, 108, 30340, 35789, 24615>> (* beautiful的词性 *),
        <<104, 97, 112, 112, 121, 30340, 27966, 29983, 35789>> (* happy的派生词 *),
        <<99, 114, 101, 97, 116, 101, 30340, 30456, 20851, 35789>> (* create的相关词 *),
        <<21517, 35789, 24418, 24335, 26159, 20160, 20040>> (* 名词形式是什么 *),
        <<21160, 35789, 21464, 24418, 26377, 21738, 20123>> (* 动词变形有哪些 *),
        <<24418, 23481, 35789, 24418, 24335>> (* 形容词形式 *),
        <<21103, 35789, 24590, 20040, 21464>> (* 副词怎么变 *),
        <<35789, 24615, 21464, 21270>> (* 词性变化 *),
        <<114, 101, 108, 97, 116, 101, 100, 32, 119, 111, 114, 100, 115>> (* related words *)
     >>,
     formality |-> <<
        <<107, 105, 100, 115, 26159, 27491, 24335, 29992, 35821, 21527>> (* kids是正式用语吗 *),
        <<119, 97, 110, 110, 97, 30340, 27491, 24335, 31243, 24230>> (* wanna的正式程度 *),
        <<36825, 20010, 35789, 27491, 24335, 21527>> (* 这个词正式吗 *),
        <<21475, 35821, 34920, 36798, 26377, 21738, 20123>> (* 口语表达有哪些 *),
        <<20070, 38754, 35821, 24590, 20040, 35828>> (* 书面语怎么说 *),
        <<115, 108, 97, 110, 103, 30340, 24847, 24605>> (* slang的意思 *),
        <<27491, 24335, 22330, 21512, 29992, 20160, 20040, 35789>> (* 正式场合用什么词 *),
        <<105, 110, 102, 111, 114, 109, 97, 108, 30340, 34920, 36798>> (* informal的表达 *),
        <<27491, 24335, 19982, 38750, 27491, 24335, 21306, 21035>> (* 正式与非正式区别 *)
     >>]

INTENT_KEYWORDS ==
    [synonym |-> <<
        <<21516, 20041, 35789>> (* 同义词 *),
        <<36817, 20041, 35789>> (* 近义词 *),
        <<30456, 20284, 35789>> (* 相似词 *),
        <<21516, 31867, 35789>> (* 同类词 *),
        <<24847, 24605, 30456, 36817, 30340, 35789>> (* 意思相近的词 *),
        <<26367, 20195, 35789>> (* 替代词 *),
        <<26367, 25442, 35789>> (* 替换词 *),
        <<115, 121, 110, 111, 110, 121, 109>> (* synonym *),
        <<115, 105, 109, 105, 108, 97, 114>> (* similar *),
        <<97, 108, 116, 101, 114, 110, 97, 116, 105, 118, 101, 32, 119, 111, 114, 100>> (* alternative word *),
        <<116, 104, 101, 115, 97, 117, 114, 117, 115>> (* thesaurus *)
     >>,
     definition |-> <<
        <<23450, 20041>> (* 定义 *),
        <<24847, 24605>> (* 意思 *),
        <<21547, 20041>> (* 含义 *),
        <<37322, 20041>> (* 释义 *),
        <<35299, 37322>> (* 解释 *),
        <<20160, 20040, 24847, 24605>> (* 什么意思 *),
        <<26159, 20160, 20040, 24847, 24605>> (* 是什么意思 *),
        <<20160, 20040, 21483>> (* 什么叫 *),
        <<21861, 24847, 24605>> (* 啥意思 *),
        <<32763, 35793>> (* 翻译 *),
        <<100, 101, 102, 105, 110, 101>> (* define *),
        <<100, 101, 102, 105, 110, 105, 116, 105, 111, 110>> (* definition *),
        <<109, 101, 97, 110, 105, 110, 103>> (* meaning *),
        <<119, 104, 97, 116, 32, 100, 111, 101, 115, 32, 105, 116, 32, 109, 101, 97, 110>> (* what does it mean *),
        <<26159, 20160, 20040, 24847, 24605>> (* 是什么意思 *),
        <<20160, 20040, 24847, 24605>> (* 什么意思 *)
     >>,
     example |-> <<
        <<20363, 21477>> (* 例句 *),
        <<20363, 23376>> (* 例子 *),
        <<36896, 21477>> (* 造句 *),
        <<29992, 27861>> (* 用法 *),
        <<20030, 20363>> (* 举例 *),
        <<36896, 20010, 21477>> (* 造个句 *),
        <<24590, 20040, 29992>> (* 怎么用 *),
        <<29992, 20363>> (* 用例 *),
        <<101, 120, 97, 109, 112, 108, 101>> (* example *),
        <<117, 115, 97, 103, 101>> (* usage *),
        <<115, 101, 110, 116, 101, 110, 99, 101>> (* sentence *),
        <<104, 111, 119, 32, 116, 111, 32, 117, 115, 101>> (* how to use *),
        <<105, 110, 32, 97, 32, 115, 101, 110, 116, 101, 110, 99, 101>> (* in a sentence *)
     >>,
     phrase |-> <<
        <<30701, 35821>> (* 短语 *),
        <<25645, 37197>> (* 搭配 *),
        <<35789, 32452>> (* 词组 *),
        <<22266, 23450, 25645, 37197>> (* 固定搭配 *),
        <<24120, 29992, 25645, 37197>> (* 常用搭配 *),
        <<20064, 24815, 25645, 37197>> (* 习惯搭配 *),
        <<35789, 20249>> (* 词伙 *),
        <<21160, 35789, 25645, 37197>> (* 动词搭配 *),
        <<20171, 35789, 25645, 37197>> (* 介词搭配 *),
        <<112, 104, 114, 97, 115, 101>> (* phrase *),
        <<99, 111, 108, 108, 111, 99, 97, 116, 105, 111, 110>> (* collocation *),
        <<101, 120, 112, 114, 101, 115, 115, 105, 111, 110>> (* expression *),
        <<105, 100, 105, 111, 109>> (* idiom *),
        <<119, 111, 114, 100, 32, 112, 97, 114, 116, 110, 101, 114, 115, 104, 105, 112>> (* word partnership *)
     >>,
     pronunciation |-> <<
        <<21457, 38899>> (* 发音 *),
        <<35835, 38899>> (* 读音 *),
        <<24590, 20040, 35835>> (* 怎么读 *),
        <<24565, 27861>> (* 念法 *),
        <<21643, 35835>> (* 咋读 *),
        <<35835, 27861>> (* 读法 *),
        <<38899, 26631>> (* 音标 *),
        <<32654, 24335, 21457, 38899>> (* 美式发音 *),
        <<33521, 24335, 21457, 38899>> (* 英式发音 *),
        <<112, 114, 111, 110, 117, 110, 99, 105, 97, 116, 105, 111, 110>> (* pronunciation *),
        <<114, 101, 97, 100>> (* read *),
        <<104, 111, 119, 32, 116, 111, 32, 112, 114, 111, 110, 111, 117, 110, 99, 101>> (* how to pronounce *),
        <<115, 111, 117, 110, 100>> (* sound *),
        <<112, 104, 111, 110, 101, 116, 105, 99>> (* phonetic *)
     >>,
     etymology |-> <<
        <<35789, 28304>> (* 词源 *),
        <<35789, 26681>> (* 词根 *),
        <<35789, 32512>> (* 词缀 *),
        <<26469, 28304>> (* 来源 *),
        <<36215, 28304>> (* 起源 *),
        <<30001, 26469>> (* 由来 *),
        <<20986, 33258>> (* 出自 *),
        <<35789, 28304, 23398>> (* 词源学 *),
        <<101, 116, 121, 109, 111, 108, 111, 103, 121>> (* etymology *),
        <<111, 114, 105, 103, 105, 110>> (* origin *),
        <<114, 111, 111, 116>> (* root *),
        <<119, 111, 114, 100, 32, 111, 114, 105, 103, 105, 110>> (* word origin *),
        <<119, 104, 101, 114, 101, 32, 100, 111, 101, 115, 32, 105, 116, 32, 99, 111, 109, 101, 32, 102, 114, 111, 109>> (* where does it come from *)
     >>,
     comparison |-> <<
        <<21306, 21035>> (* 区别 *),
        <<19981, 21516>> (* 不同 *),
        <<24046, 24322>> (* 差异 *),
        <<24046, 21035>> (* 差别 *),
        <<27604, 36739>> (* 比较 *),
        <<27604, 23545>> (* 比对 *),
        <<23545, 27604>> (* 对比 *),
        <<20998, 36776>> (* 分辨 *),
        <<21306, 20998>> (* 区分 *),
        <<100, 105, 102, 102, 101, 114, 101, 110, 99, 101>> (* difference *),
        <<99, 111, 109, 112, 97, 114, 101>> (* compare *),
        <<99, 111, 109, 112, 97, 114, 105, 115, 111, 110>> (* comparison *),
        <<100, 105, 115, 116, 105, 110, 103, 117, 105, 115, 104>> (* distinguish *),
        <<118, 115>> (* vs *),
        <<32, 118, 101, 114, 115, 117, 115>> (*  versus *),
        <<26377, 20160, 20040, 21306, 21035>> (* 有什么区别 *),
        <<26377, 20309, 19981, 21516>> (* 有何不同 *)
     >>,
     antonym |-> <<
        <<21453, 20041, 35789>> (* 反义词 *),
        <<30456, 21453, 35789>> (* 相反词 *),
        <<23545, 31435, 35789>> (* 对立词 *),
        <<97, 110, 116, 111, 110, 121, 109>> (* antonym *),
        <<111, 112, 112, 111, 115, 105, 116, 101>> (* opposite *),
        <<114, 101, 118, 101, 114, 115, 101>> (* reverse *)
     >>,
     usage_note |-> <<
        <<29992, 27861>> (* 用法 *),
        <<20351, 29992>> (* 使用 *),
        <<24590, 20040, 29992>> (* 怎么用 *),
        <<29992, 27861, 27880, 24847>> (* 用法注意 *),
        <<20351, 29992, 22330, 26223>> (* 使用场景 *),
        <<36866, 29992, 22330, 21512>> (* 适用场合 *),
        <<35821, 27861>> (* 语法 *),
        <<117, 115, 97, 103, 101>> (* usage *),
        <<104, 111, 119, 32, 116, 111, 32, 117, 115, 101>> (* how to use *),
        <<103, 114, 97, 109, 109, 97, 114>> (* grammar *),
        <<99, 111, 110, 116, 101, 120, 116>> (* context *),
        <<105, 110, 32, 119, 104, 97, 116, 32, 115, 105, 116, 117, 97, 116, 105, 111, 110>> (* in what situation *)
     >>,
     word_family |-> <<
        <<35789, 24615>> (* 词性 *),
        <<27966, 29983, 35789>> (* 派生词 *),
        <<30456, 20851, 35789>> (* 相关词 *),
        <<24418, 23481, 35789>> (* 形容词 *),
        <<21103, 35789>> (* 副词 *),
        <<21517, 35789>> (* 名词 *),
        <<21160, 35789>> (* 动词 *),
        <<21464, 24418>> (* 变形 *),
        <<112, 97, 114, 116, 32, 111, 102, 32, 115, 112, 101, 101, 99, 104>> (* part of speech *),
        <<100, 101, 114, 105, 118, 97, 116, 105, 118, 101>> (* derivative *),
        <<114, 101, 108, 97, 116, 101, 100, 32, 119, 111, 114, 100, 115>> (* related words *),
        <<97, 100, 106, 101, 99, 116, 105, 118, 101>> (* adjective *),
        <<97, 100, 118, 101, 114, 98>> (* adverb *),
        <<110, 111, 117, 110>> (* noun *),
        <<118, 101, 114, 98>> (* verb *)
     >>,
     formality |-> <<
        <<27491, 24335>> (* 正式 *),
        <<38750, 27491, 24335>> (* 非正式 *),
        <<21475, 35821>> (* 口语 *),
        <<20070, 38754, 35821>> (* 书面语 *),
        <<20442, 35821>> (* 俚语 *),
        <<22996, 23113, 35821>> (* 委婉语 *),
        <<27491, 24335, 31243, 24230>> (* 正式程度 *),
        <<102, 111, 114, 109, 97, 108>> (* formal *),
        <<105, 110, 102, 111, 114, 109, 97, 108>> (* informal *),
        <<115, 108, 97, 110, 103>> (* slang *),
        <<99, 111, 108, 108, 111, 113, 117, 105, 97, 108>> (* colloquial *),
        <<114, 101, 103, 105, 115, 116, 101, 114>> (* register *)
     >>]

-----------------------------------------------------------------------------
(* intent_recognizer.py: similarity, validation and cleaning of candidates *)

\* the Jaccard similarity of the word sets, as a fraction; the words are the
\* matches of \b\w+\b
_calculate_text_similarity(text1, text2) ==
    LET Words(text) == Range(Pieces(text, Runs(text, WordChar)))
        Jaccard(words1, words2) ==
            IF words1 = {} \/ words2 = {} THEN Rat(0, 1)
            ELSE Rat(Cardinality(words1 \cap words2), Cardinality(words1 \cup words2))
    IN  Jaccard(Words(lower(text1)), Words(lower(text2)))

stop_words ==
    { <<20160, 20040>> (* 什么 *), <<21738, 20123>> (* 哪些 *), <<24590, 20040>> (* 怎么 *), <<22914, 20309>> (* 如何 *), <<20026, 20160, 20040>> (* 为什么 *), <<20026, 20309>> (* 为何 *), <<21738, 20010>> (* 哪个 *), <<21738>> (* 哪 *), <<20160, 20040, 26159>> (* 什么是 *),
      <<119, 104, 97, 116>> (* what *), <<119, 104, 105, 99, 104>> (* which *), <<104, 111, 119>> (* how *), <<119, 104, 121>> (* why *), <<119, 104, 101, 110>> (* when *), <<119, 104, 101, 114, 101>> (* where *), <<119, 104, 111>> (* who *),
      <<26377, 27809, 26377>> (* 有没有 *), <<26377, 20160, 20040>> (* 有什么 *), <<26159, 21542>> (* 是否 *), <<21487, 20197>> (* 可以 *), <<33021, 21542>> (* 能否 *) }

_is_valid_target(candidate_, query_) ==
    LET \* lines 63-93, on the candidate that line 61 has stripped
        Valid(candidate) ==
            /\ ~(Len(candidate) = 1 /\ ~isupper(candidate))
            /\ Len(candidate) # 0
            /\ \A sw \in stop_words : ~Contains(sw, lower(candidate))
            /\ Len(split(candidate)) <= 3
            /\ \/ /\ query_ # <<>>
                  /\ Contains(candidate, query_)
                  /\ \A sw \in { <<20160, 20040>> (* 什么 *), <<26377, 20160, 20040>> (* 有什么 *), <<26377, 27809, 26377>> (* 有没有 *), <<63>> (* ? *), <<65311>> (* ？ *) } :
                        ~Contains(sw, candidate)
               \/ IF CountOf(candidate, CJK) > 0 THEN Len(candidate) >= 2
                  ELSE CountOf(candidate, AsciiLetter) >= 2
    IN  candidate_ # <<>> /\ Valid(strip(candidate_))

\* the alternatives of the prefix of line 102, in the order the regex tries them
question_prefixes ==
    << <<26377>> (* 有 *), <<26377, 27809, 26377>> (* 有没有 *), <<20160, 20040>> (* 什么 *), <<21738, 20123>> (* 哪些 *), <<21738, 20010>> (* 哪个 *), <<21738>> (* 哪 *), <<26159, 21542>> (* 是否 *), <<33021, 21542>> (* 能否 *), <<21487, 20197>> (* 可以 *),
       <<26377, 20160, 20040>> (* 有什么 *), <<26159, 20160, 20040>> (* 是什么 *), <<20160, 20040, 26159>> (* 什么是 *) >>

_clean_chinese_candidate(word_) ==
    LET FromFirst(w, keep) == IF keep = {} THEN <<>> ELSE SubSeq(w, MinOf(keep), Len(w))
        ToLast(w, keep) == IF keep = {} THEN <<>> ELSE SubSeq(w, 1, MaxOf(keep))
        \* w without a prefix of [，,。；;：:\s]*
        DropSeparators(w) ==
            FromFirst(w, {n \in 1..Len(w) :
                             w[n] \notin { 65292 (* ， *), 44 (* , *), 12290 (* 。 *), 65307 (* ； *), 59 (* ; *), 65306 (* ： *), 58 (* : *) }
                                             \cup Whitespace})
        \* line 104: w without a suffix of [？?。.！!，,；;\s]+
        DropMarks(w) ==
            ToLast(w, {n \in 1..Len(w) :
                          w[n] \notin { 65311 (* ？ *), 63 (* ? *), 12290 (* 。 *), 46 (* . *), 65281 (* ！ *), 33 (* ! *), 65292 (* ， *),
                                        44 (* , *), 65307 (* ； *), 59 (* ; *) } \cup Whitespace})
        \* line 102: w without the alternative a of question_prefixes and the
        \* separators behind it; a = 0 when w begins with none
        WithoutPrefix(w, a) ==
            IF a = 0 THEN w
            ELSE DropSeparators(SubSeq(w, Len(question_prefixes[a]) + 1, Len(w)))
        \* lines 102-105, on the word that line 100 has stripped
        Clean(w) ==
            strip(DropMarks(WithoutPrefix(w, FirstAlternativeAt(w, question_prefixes, 1))))
    IN  IF word_ = <<>> THEN <<>> ELSE Clean(strip(word_))

-----------------------------------------------------------------------------
(* intent_recognizer.py: the choice among several candidates.  The scores
   are fractions with the length of the query as denominator; the operators
   below hold them multiplied by that length. *)

\* max(word_scores, key=...): the first item with the best score when that
\* score reaches a least one, else another result
BestScored(items, scores, least, otherwise) ==
    LET Pick(best) == IF scores[best] >= least THEN items[best] ELSE otherwise
    IN  Pick(FirstBest(scores))

common_function_words ==
    { <<116, 104, 101>> (* the *), <<97>> (* a *), <<97, 110>> (* an *), <<97, 110, 100>> (* and *), <<111, 114>> (* or *), <<98, 117, 116>> (* but *), <<105, 110>> (* in *), <<111, 110>> (* on *), <<97, 116>> (* at *), <<116, 111>> (* to *),
      <<102, 111, 114>> (* for *), <<111, 102>> (* of *), <<119, 105, 116, 104>> (* with *), <<98, 121>> (* by *), <<97, 115>> (* as *), <<105, 115>> (* is *), <<97, 114, 101>> (* are *), <<119, 97, 115>> (* was *), <<119, 101, 114, 101>> (* were *),
      <<116, 104, 105, 115>> (* this *), <<116, 104, 97, 116>> (* that *), <<116, 104, 101, 115, 101>> (* these *), <<116, 104, 111, 115, 101>> (* those *), <<104, 97, 118, 101>> (* have *), <<104, 97, 115>> (* has *), <<104, 97, 100>> (* had *) }

\* the score of a word in the loop of _select_best_english_target
EnglishScore(word, query_) ==
    LET \* re.search(r'of\s+' + re.escape(word), query, re.IGNORECASE)
        OfBefore ==
            \E at \in 1..Len(query_) :
                /\ StartsWithAtIgnoreCase(query_, <<111, 102>> (* of *), at)
                /\ \E m \in 1..(Len(query_) - at - 1) :
                      /\ \A j \in 1..m : query_[at + 1 + j] \in Whitespace
                      /\ StartsWithAtIgnoreCase(query_, word, at + 2 + m)
        Quoted(mark) == Contains(lower(mark \o word \o mark), lower(query_))
        Scaled(qlen, alpha_len, word_position) ==
            qlen * ( (IF 3 <= alpha_len /\ alpha_len <= 30 THEN 2 ELSE 0)
                   + (IF word[1] \in 65..90 /\ ~isupper(word) THEN 1 ELSE 0)
                   + (IF lower(word) \notin common_function_words THEN 3 ELSE 0)
                   + (IF OfBefore \/ Quoted(<<39>> (* ' *)) \/ Quoted(<<34>> (* " *)) THEN 2 ELSE 0) )
            + (IF word_position >= 0 THEN 3 * (qlen - word_position) ELSE 0)
    IN  Scaled(IF query_ # <<>> THEN Len(query_) ELSE 1,
               CountOf(word, AsciiLetter),
               IF query_ # <<>> THEN find(lower(query_), lower(word)) ELSE -1)

_select_best_english_target(words, query_) ==
    IF words = <<>> THEN <<>>
    ELSE BestScored(words, [n \in 1..Len(words) |-> EnglishScore(words[n], query_)], 0, <<>>)

chinese_stop_words ==
    { <<20160, 20040>> (* 什么 *), <<21738, 20123>> (* 哪些 *), <<24590, 20040>> (* 怎么 *), <<22914, 20309>> (* 如何 *), <<20026, 20160, 20040>> (* 为什么 *), <<20026, 20309>> (* 为何 *), <<21738, 20010>> (* 哪个 *), <<21738>> (* 哪 *), <<20160, 20040, 26159>> (* 什么是 *),
      <<36825, 20010>> (* 这个 *), <<37027, 20010>> (* 那个 *), <<36825, 20123>> (* 这些 *), <<37027, 20123>> (* 那些 *), <<26377, 27809, 26377>> (* 有没有 *), <<26159, 21542>> (* 是否 *), <<21487, 20197>> (* 可以 *), <<33021, 22815>> (* 能够 *), <<26377>> (* 有 *),
      <<26159, 20160, 20040>> (* 是什么 *) }

\* the score of a word in the loop of _select_best_chinese_target
ChineseScore(word, query_) ==
    LET InContext(before, after) ==
            Contains(lower(before \o word \o after), lower(query_))
        Scaled(qlen, word_position) ==
            qlen * ( (IF 2 <= Len(word) /\ Len(word) <= 4 THEN 2
                      ELSE IF Len(word) = 1 THEN -1 ELSE 0)
                   + (IF \/ InContext(<<>>, <<30340, 21516, 20041, 35789>> (* 的同义词 *))
                         \/ InContext(<<>>, <<30340, 23450, 20041>> (* 的定义 *))
                         \/ InContext(<<26597, 35810>> (* 查询 *), <<>>)
                         \/ InContext(<<25628, 32034>> (* 搜索 *), <<>>) THEN 3 ELSE 0)
                   + (IF word \in { <<24847, 24605>> (* 意思 *), <<35299, 37322>> (* 解释 *), <<26597, 35810>> (* 查询 *), <<25628, 32034>> (* 搜索 *), <<26597, 25214>> (* 查找 *), <<24110, 21161>> (* 帮助 *) }
                      THEN -2 ELSE 0) )
            + (IF word_position >= 0 THEN 3 * (qlen - word_position) ELSE 0)
    IN  Scaled(IF query_ # <<>> THEN Len(query_) ELSE 1,
               IF query_ # <<>> THEN find(query_, word) ELSE -1)

_select_best_chinese_target(chinese_words, query_) ==
    LET \* the filter of line 135
        IsUsable(w) == w # <<>> /\ w \notin chinese_stop_words
        \* the filter of lines 122-128
        IsKept(w) ==
            /\ IsUsable(w)
            /\ \A q \in { <<20160, 20040>> (* 什么 *), <<26377, 27809, 26377>> (* 有没有 *), <<26377, 20160, 20040>> (* 有什么 *), <<26159, 21542>> (* 是否 *), <<33021, 21542>> (* 能否 *), <<21487, 20197>> (* 可以 *) } :
                  ~StartsWithAt(w, q, 1)
        \* lines 131-177, given the cleaned words that the two filters let through
        Choose(cleaned, usable) ==
            IF cleaned = <<>> THEN (IF usable # <<>> THEN usable[1] ELSE chinese_words[1])
            ELSE BestScored(cleaned,
                            [n \in 1..Len(cleaned) |-> ChineseScore(cleaned[n], query_)],
                            1 - (IF query_ # <<>> THEN Len(query_) ELSE 1),
                            cleaned[1])
        Filter(cleaned_all) ==
            Choose(SelectSeq(cleaned_all, IsKept), SelectSeq(cleaned_all, IsUsable))
    IN  IF chinese_words = <<>> THEN <<>>
        ELSE Filter([n \in 1..Len(chinese_words) |->
                        _clean_chinese_candidate(chinese_words[n])])

RECURSIVE RemoveAll(_, _)
\* re.sub(pattern, '', s, flags=re.IGNORECASE) for a pattern that is a plain text
RemoveAll(s, pattern) ==
    LET \* s without the first occurrence, which is at a place counted from 0,
        \* and without the later ones
        From(at) ==
            IF at < 0 THEN s
            ELSE SubSeq(s, 1, at)
                     \o RemoveAll(SubSeq(s, at + Len(pattern) + 1, Len(s)), pattern)
    IN  IF s = <<>> THEN s ELSE From(find(lower(s), lower(pattern)))

remove_patterns ==
    << <<20160, 20040, 26159>> (* 什么是 *), <<21738, 20123, 26159>> (* 哪些是 *), <<24590, 20040>> (* 怎么 *), <<22914, 20309>> (* 如何 *), <<20026, 20160, 20040>> (* 为什么 *), <<20026, 20309>> (* 为何 *),
       <<119, 104, 97, 116, 32, 97, 114, 101>> (* what are *), <<119, 104, 97, 116, 32, 105, 115>> (* what is *), <<104, 111, 119, 32, 116, 111>> (* how to *), <<119, 104, 121>> (* why *), <<119, 104, 105, 99, 104>> (* which *) >>

RECURSIVE RemoveEach(_, _, _)
\* the loop of line 235 from one of the patterns on; a pattern that is not
\* in the text leaves it as it is
RemoveEach(s, patterns_, from) ==
    LET Onward(p) ==
            IF p = 0 THEN s ELSE RemoveEach(RemoveAll(s, patterns_[p]), patterns_, p + 1)
    IN  Onward(MinOrZero({p \in from..Len(patterns_) :
                           find(lower(s), lower(patterns_[p])) >= 0}))

RECURSIVE FindallCJK(_, _)
\* re.findall(r'[一-鿿]{2,6}', s) from a place on
FindallCJK(s, at) ==
    LET Taken(a, n) == <<SubSeq(s, a, a + n - 1)>> \o FindallCJK(s, a + n)
        \* a is the first place where two ideographs or more stand in a row
        From(a) == IF a = 0 THEN <<>> ELSE Taken(a, Min2(6, RunLength(s, a, CJK)))
    IN  From(MinOrZero({a \in at..Len(s) : RunLength(s, a, CJK) >= 2}))

_extract_core_concept(query_) ==
    LET IsLong(r) == r.to - r.from + 1 >= 3
        \* lines 240-255
        Among(cleaned_query, chinese_words, english_words, words) ==
            IF chinese_words # <<>>
            THEN _select_best_chinese_target(chinese_words, cleaned_query)
            ELSE IF english_words # <<>>
            THEN _select_best_english_target(english_words, cleaned_query)
            ELSE IF words # <<>> /\ _is_valid_target(words[1], query_) THEN words[1]
            ELSE <<>>
        \* lines 239-249: the ideographs by twos to sixes, the runs of three
        \* letters or more, and the words
        Of(cleaned_query) ==
            Among(cleaned_query,
                  FindallCJK(cleaned_query, 1),
                  Pieces(cleaned_query, SelectSeq(Runs(cleaned_query, AsciiLetter), IsLong)),
                  split(strip(cleaned_query)))
    IN  Of(RemoveEach(query_, remove_patterns, 1))

-----------------------------------------------------------------------------
(* intent_recognizer.py: _extract_target_word *)

\* the quoted_patterns: the characters that open and those that close a span
quoted_patterns ==
    << [opens |-> { 12300 (* 「 *), 12302 (* 『 *), 34 (* " *) }, closes |-> { 12301 (* 」 *), 12303 (* 』 *), 34 (* " *) }],
       [opens |-> { 39 (* ' *) }, closes |-> { 39 (* ' *) }],
       [opens |-> { 34 (* " *) }, closes |-> { 34 (* " *) }],
       [opens |-> { 12304 (* 【 *) }, closes |-> { 12305 (* 】 *) }],
       [opens |-> { 12298 (* 《 *) }, closes |-> { 12299 (* 》 *) }] >>

\* re.search of  open (.+?) close : the group of the leftmost opening
\* character that some closing character follows after one or more
\* characters of its line, up to the nearest such closing character; the
\* group is never empty, and the result is "" when there is no match
QuotedSpan(s, pattern) ==
    LET Closes(a) ==
            {b \in (a + 2)..Len(s) :
                s[b] \in pattern.closes /\ \A m \in (a + 1)..(b - 1) : InClass(Dot, s[m])}
        From(a) == IF a = 0 THEN <<>> ELSE SubSeq(s, a + 1, MinOf(Closes(a)) - 1)
    IN  From(MinOrZero({a \in 1..Len(s) : s[a] \in pattern.opens /\ Closes(a) # {}}))

\* re.findall(r'(?<![A-Za-z])([A-Za-z][A-Za-z-]*[A-Za-z])(?![A-Za-z])', s): of
\* every run of letters and hyphens the part from its first to its last
\* letter, when that part has two characters or more
FindallTokens(s) ==
    LET Letters(r) == {n \in r.from..r.to : InClass(AsciiLetter, s[n])}
        IsToken(r) == Cardinality(Letters(r)) >= 2
        Tokens(runs) ==
            [n \in 1..Len(runs) |->
                SubSeq(s, MinOf(Letters(runs[n])), MaxOf(Letters(runs[n])))]
    IN  Tokens(SelectSeq(Runs(s, [chars |-> AsciiLetter.chars \cup { 45 (* - *) },
                                  negated |-> FALSE]),
                         IsToken))

\* [^的，,；;。.?？!！\s]
TermChar ==
    [chars |-> { 30340 (* 的 *), 65292 (* ， *), 44 (* , *), 65307 (* ； *), 59 (* ; *), 12290 (* 。 *), 46 (* . *), 63 (* ? *), 65311 (* ？ *),
                 33 (* ! *), 65281 (* ！ *) } \cup Whitespace,
     negated |-> TRUE]

\* the alternatives behind the term of chinese_patterns[0]
aspect_words ==
    << <<21516, 20041, 35789>> (* 同义词 *), <<36817, 20041, 35789>> (* 近义词 *), <<30456, 20284, 35789>> (* 相似词 *), <<21453, 20041, 35789>> (* 反义词 *), <<23450, 20041>> (* 定义 *), <<24847, 24605>> (* 意思 *), <<21547, 20041>> (* 含义 *), <<35299, 37322>> (* 解释 *),
       <<20363, 21477>> (* 例句 *), <<20363, 23376>> (* 例子 *), <<29992, 27861>> (* 用法 *), <<21457, 38899>> (* 发音 *), <<35835, 38899>> (* 读音 *), <<35789, 28304>> (* 词源 *), <<35789, 26681>> (* 词根 *), <<35789, 32512>> (* 词缀 *),
       <<25645, 37197>> (* 搭配 *), <<30701, 35821>> (* 短语 *) >>

\* the alternatives in front of the term of chinese_patterns[1]
lookup_words == << <<26597, 35810>> (* 查询 *), <<26597, 25214>> (* 查找 *), <<25628, 32034>> (* 搜索 *), <<25214>> (* 找 *), <<20160, 20040, 26159>> (* 什么是 *), <<35299, 37322>> (* 解释 *), <<23450, 20041>> (* 定义 *) >>

\* the alternatives behind the terms of chinese_patterns[2]
difference_words == << <<21306, 21035>> (* 区别 *), <<24046, 24322>> (* 差异 *), <<19981, 21516>> (* 不同 *) >>

\* where a match of  (?:的)?(?:alternative|...)  that starts at a place ends:
\* the place behind it, 0 when there is no match
OptionalDeThen(s, alternatives, at) ==
    LET Behind(with_de, without_de) ==
            IF with_de > 0 THEN at + 1 + Len(alternatives[with_de])
            ELSE IF without_de > 0 THEN at + Len(alternatives[without_de])
            ELSE 0
    IN  Behind(IF at <= Len(s) /\ s[at] = 30340 (* 的 *)
               THEN FirstAlternativeAt(s, alternatives, at + 1) ELSE 0,
               FirstAlternativeAt(s, alternatives, at))

RECURSIVE FindallAspect(_, _)
\* re.findall of chinese_patterns[0] from a place on: the terms in front of an
\* aspect word, the longest first
FindallAspect(s, at) ==
    LET \* the lengths of a term at a place that an aspect word follows
        Fits(a) ==
            {n \in 1..Min2(6, RunLength(s, a, TermChar)) :
                OptionalDeThen(s, aspect_words, a + n) > 0}
        \* the match whose term has n characters, and the later ones
        Taken(a, n) ==
            <<SubSeq(s, a, a + n - 1)>>
                \o FindallAspect(s, OptionalDeThen(s, aspect_words, a + n))
        \* a is the first place of a match
        From(a) == IF a = 0 THEN <<>> ELSE Taken(a, MaxOf(Fits(a)))
    IN  From(MinOrZero({a \in at..Len(s) : Fits(a) # {}}))

RECURSIVE FindallLookup(_, _)
\* re.findall of chinese_patterns[1] from a place on: the terms behind a
\* lookup word
FindallLookup(s, at) ==
    LET \* the first lookup word at a place that a term follows, 0 when none
        First(a) ==
            MinOrZero({w \in 1..Len(lookup_words) :
                          /\ StartsWithAt(s, lookup_words[w], a)
                          /\ RunLength(s, a + Len(lookup_words[w]), TermChar) >= 1})
        \* the match whose term starts at a place and has n characters, and
        \* the later ones
        Taken(start, n) == <<SubSeq(s, start, start + n - 1)>> \o FindallLookup(s, start + n)
        Behind(start) == Taken(start, Min2(6, RunLength(s, start, TermChar)))
        \* a is the first place of a match
        From(a) == IF a = 0 THEN <<>> ELSE Behind(a + Len(lookup_words[First(a)]))
    IN  From(MinOrZero({a \in at..Len(s) : First(a) > 0}))

RECURSIVE FindallComparison(_, _)
\* re.findall of chinese_patterns[2] from a place on: both terms of each match
FindallComparison(s, at) ==
    LET connectives == << <<21644>> (* 和 *), <<19982>> (* 与 *), <<36319>> (* 跟 *), <<21450>> (* 及 *), <<20197, 21450>> (* 以及 *) >>
        \* [^和与跟及以及\s]
        LeftChar ==
            [chars |-> { 21644 (* 和 *), 19982 (* 与 *), 36319 (* 跟 *), 21450 (* 及 *), 20197 (* 以 *) } \cup Whitespace,
             negated |-> TRUE]
        \* [^的区别差异不同]
        RightChar ==
            [chars |-> { 30340 (* 的 *), 21306 (* 区 *), 21035 (* 别 *), 24046 (* 差 *), 24322 (* 异 *), 19981 (* 不 *), 21516 (* 同 *) },
             negated |-> TRUE]
        \* the matches that start at a place: the length of the left term,
        \* the connective and the length of the right term
        MatchesAt(a) ==
            {m \in [left : 1..Min2(6, RunLength(s, a, LeftChar)),
                    connective : 1..Len(connectives),
                    right : 1..6] :
                /\ StartsWithAt(s, connectives[m.connective], a + m.left)
                /\ m.right <= RunLength(s, a + m.left + Len(connectives[m.connective]),
                                        RightChar)
                /\ OptionalDeThen(s, difference_words,
                                  a + m.left + Len(connectives[m.connective]) + m.right) > 0}
        \* the match the regex engine finds first: the longest left term, the
        \* first connective, the longest right term
        First(matches) ==
            CHOOSE m \in matches :
                \A o \in matches :
                    \/ o.left < m.left
                    \/ o.left = m.left /\ o.connective > m.connective
                    \/ o.left = m.left /\ o.connective = m.connective /\ o.right <= m.right
        \* the match m at a place, whose right term starts at another, and
        \* the later ones
        Taken(a, m, right) ==
            <<SubSeq(s, a, a + m.left - 1), SubSeq(s, right, right + m.right - 1)>>
                \o FindallComparison(s, OptionalDeThen(s, difference_words, right + m.right))
        Matched(a, m) == Taken(a, m, a + m.left + Len(connectives[m.connective]))
        \* a is the first place of a match
        From(a) == IF a = 0 THEN <<>> ELSE Matched(a, First(MatchesAt(a)))
    IN  From(MinOrZero({a \in at..Len(s) : MatchesAt(a) # {}}))

\* the first candidate of a list that is not empty and valid, else ""
FirstValid(candidates, query_) ==
    LET Item(n) == IF n = 0 THEN <<>> ELSE candidates[n]
    IN  Item(MinOrZero({n \in 1..Len(candidates) :
                           candidates[n] # <<>> /\ _is_valid_target(candidates[n], query_)}))

_extract_target_word(query_) ==
    LET \* lines 264-276: the stripped groups of the quoted_patterns
        Quoted ==
            FirstValid([p \in 1..Len(quoted_patterns) |->
                           strip(QuotedSpan(query_, quoted_patterns[p]))], query_)
        \* lines 279-285: the best English token
        English ==
            FirstValid(<<_select_best_english_target(FindallTokens(query_), query_)>>, query_)
        Cleaned(found) ==
            [n \in 1..Len(found) |-> _clean_chinese_candidate(strip(found[n]))]
        \* lines 287-306: the candidates of the three chinese_patterns in the
        \* order the loops visit them
        Chinese ==
            FirstValid(Cleaned(FindallAspect(query_, 1) \o FindallLookup(query_, 1)
                                   \o FindallComparison(query_, 1)), query_)
    IN  IF query_ = <<>> THEN <<>>
        ELSE Or(Quoted, Or(English, Or(Chinese, _extract_core_concept(query_))))

-----------------------------------------------------------------------------
(* intent_recognizer.py: _pattern_based_recognition *)

\* what stands behind the prefix of an English pattern, from a place on: the
\* group of the match, which is never empty; "" when there is no match
\*   rest      \s+(.+)
\*   of        \s+of\s+(.+)
\*   one       \s+(.+?)\s*(?:mean)?
\*   sentence  \s+(.+?)\s+in a sentence
After(kind, s, at) ==
    LET \* how much white space  \s+  can take from a place on and leave a
        \* character of the line for the group
        Fits(from) == {t \in 1..RunLength(s, from, Space) : RunLength(s, from + t, Dot) >= 1}
        \* (.+) takes the rest of the line
        Rest(from, fits) ==
            IF fits = {} THEN <<>>
            ELSE SubSeq(s, from + MaxOf(fits),
                        from + MaxOf(fits) + RunLength(s, from + MaxOf(fits), Dot) - 1)
        OfRest(spaces) ==
            IF spaces >= 1 /\ StartsWithAtIgnoreCase(s, <<111, 102>> (* of *), at + spaces)
            THEN Rest(at + spaces + 2, Fits(at + spaces + 2))
            ELSE <<>>
        \* (.+?) with nothing that must follow takes one character
        One(fits) == IF fits = {} THEN <<>> ELSE <<s[at + MaxOf(fits)]>>
        \* the lengths of a group from a place on that  \s+in a sentence  follows
        Ends(start) ==
            {n \in 1..RunLength(s, start, Dot) :
                /\ RunLength(s, start + n, Space) >= 1
                /\ StartsWithAtIgnoreCase(s, <<105, 110, 32, 97, 32, 115, 101, 110, 116, 101, 110, 99, 101>> (* in a sentence *),
                                          start + n + RunLength(s, start + n, Space))}
        Until(start) == SubSeq(s, start, start + MinOf(Ends(start)) - 1)
        Sentence(fits) == IF fits = {} THEN <<>> ELSE Until(at + MaxOf(fits))
    IN  CASE kind = "rest" -> Rest(at, Fits(at))
          [] kind = "of" -> OfRest(RunLength(s, at, Space))
          [] kind = "one" -> One(Fits(at))
          [] kind = "sentence" ->
                 Sentence({t \in 1..RunLength(s, at, Space) : Ends(at + t) # {}})

\* re.search of  (?:prefix|...) rest : the leftmost place where a prefix
\* stands that the rest follows, and there the first such prefix; the groups
\* of the match, none when there is no match
MatchPrefix(s, prefixes, kind) ==
    LET Fits(at) ==
            {a \in 1..Len(prefixes) :
                /\ StartsWithAtIgnoreCase(s, prefixes[a], at)
                /\ After(kind, s, at + Len(prefixes[a])) # <<>>}
        At(at) ==
            IF at = 0 THEN <<>>
            ELSE <<After(kind, s, at + Len(prefixes[MinOf(Fits(at))]))>>
    IN  At(MinOrZero({at \in 1..Len(s) : Fits(at) # {}}))

\* re.search of  (.{1,30}?)(?:的)?(?:word|...) : the leftmost start, and
\* from it the shortest group; de says whether the pattern has (?:的)?
MatchSuffix(s, words, de) ==
    LET Fits(at) ==
            {n \in 1..Min2(30, RunLength(s, at, Dot)) :
                IF de THEN OptionalDeThen(s, words, at + n) > 0
                ELSE FirstAlternativeAt(s, words, at + n) > 0}
        At(at) == IF at = 0 THEN <<>> ELSE <<SubSeq(s, at, at + MinOf(Fits(at)) - 1)>>
    IN  At(MinOrZero({at \in 1..Len(s) : Fits(at) # {}}))

\* re.search of  (.{1,30}?)(?:和|与)(.{1,30}?)(?:的)?(?:区别|不同|差异)
MatchComparison(s, joints, words) ==
    LET \* the lengths of a right term from a place on that a difference word follows
        Rights(from) ==
            {n \in 1..Min2(30, RunLength(s, from, Dot)) :
                OptionalDeThen(s, words, from + n) > 0}
        \* the lengths of a left term that a joint and a right term follow
        Lefts(at) ==
            {n \in 1..Min2(30, RunLength(s, at, Dot)) :
                /\ at + n <= Len(s)
                /\ s[at + n] \in joints
                /\ Rights(at + n + 1) # {}}
        Both(at, right) ==
            <<SubSeq(s, at, right - 2), SubSeq(s, right, right + MinOf(Rights(right)) - 1)>>
        At(at) == IF at = 0 THEN <<>> ELSE Both(at, at + MinOf(Lefts(at)) + 1)
    IN  At(MinOrZero({at \in 1..Len(s) : Lefts(at) # {}}))

\* the patterns of _pattern_based_recognition in the order of the dict and of
\* its lists; an optional letter of a regex is written out as two prefixes,
\* the longer first
patterns ==
    << [intent |-> "synonym", kind |-> "suffix", de |-> TRUE,
        words |-> << <<21516, 20041, 35789>> (* 同义词 *), <<36817, 20041, 35789>> (* 近义词 *), <<30456, 20284, 35789>> (* 相似词 *) >>],
       [intent |-> "synonym", kind |-> "rest", de |-> FALSE,
        words |-> << <<115, 121, 110, 111, 110, 121, 109, 115>> (* synonyms *), <<115, 121, 110, 111, 110, 121, 109>> (* synonym *), <<115, 105, 109, 105, 108, 97, 114, 32, 119, 111, 114, 100, 115, 32, 116, 111>> (* similar words to *), <<115, 105, 109, 105, 108, 97, 114, 32, 119, 111, 114, 100, 32, 116, 111>> (* similar word to *),
                     <<119, 111, 114, 100, 115, 32, 108, 105, 107, 101>> (* words like *) >>],
       [intent |-> "definition", kind |-> "suffix", de |-> TRUE,
        words |-> << <<23450, 20041>> (* 定义 *), <<24847, 24605>> (* 意思 *), <<21547, 20041>> (* 含义 *), <<37322, 20041>> (* 释义 *), <<26159, 20160, 20040>> (* 是什么 *) >>],
       [intent |-> "definition", kind |-> "one", de |-> FALSE,
        words |-> << <<119, 104, 97, 116, 32, 105, 115>> (* what is *), <<119, 104, 97, 116, 32, 100, 111, 101, 115>> (* what does *) >>],
       [intent |-> "example", kind |-> "suffix", de |-> TRUE,
        words |-> << <<20363, 21477>> (* 例句 *), <<29992, 27861>> (* 用法 *), <<36896, 21477>> (* 造句 *) >>],
       [intent |-> "example", kind |-> "rest", de |-> FALSE,
        words |-> << <<101, 120, 97, 109, 112, 108, 101, 32, 111, 102>> (* example of *), <<117, 115, 97, 103, 101, 32, 111, 102>> (* usage of *) >>],
       [intent |-> "example", kind |-> "sentence", de |-> FALSE,
        words |-> << <<117, 115, 101>> (* use *) >>],
       [intent |-> "phrase", kind |-> "suffix", de |-> TRUE,
        words |-> << <<30701, 35821>> (* 短语 *), <<25645, 37197>> (* 搭配 *), <<35789, 32452>> (* 词组 *), <<22266, 23450, 25645, 37197>> (* 固定搭配 *) >>],
       [intent |-> "phrase", kind |-> "of", de |-> FALSE,
        words |-> << <<112, 104, 114, 97, 115, 101, 115>> (* phrases *), <<112, 104, 114, 97, 115, 101>> (* phrase *), <<99, 111, 108, 108, 111, 99, 97, 116, 105, 111, 110, 115>> (* collocations *), <<99, 111, 108, 108, 111, 99, 97, 116, 105, 111, 110>> (* collocation *) >>],
       [intent |-> "pronunciation", kind |-> "suffix", de |-> FALSE,
        words |-> << <<24590, 20040, 35835>> (* 怎么读 *), <<21457, 38899>> (* 发音 *), <<35835, 38899>> (* 读音 *), <<35835, 27861>> (* 读法 *) >>],
       [intent |-> "pronunciation", kind |-> "rest", de |-> FALSE,
        words |-> << <<104, 111, 119, 32, 116, 111, 32, 112, 114, 111, 110, 111, 117, 110, 99, 101>> (* how to pronounce *), <<112, 114, 111, 110, 117, 110, 99, 105, 97, 116, 105, 111, 110, 32, 111, 102>> (* pronunciation of *) >>],
       [intent |-> "etymology", kind |-> "suffix", de |-> TRUE,
        words |-> << <<35789, 28304>> (* 词源 *), <<26469, 28304>> (* 来源 *), <<36215, 28304>> (* 起源 *), <<35789, 26681>> (* 词根 *) >>],
       [intent |-> "etymology", kind |-> "rest", de |-> FALSE,
        words |-> << <<101, 116, 121, 109, 111, 108, 111, 103, 121, 32, 111, 102>> (* etymology of *), <<111, 114, 105, 103, 105, 110, 32, 111, 102>> (* origin of *) >>],
       [intent |-> "comparison", kind |-> "comparison", de |-> TRUE,
        words |-> << <<21306, 21035>> (* 区别 *), <<19981, 21516>> (* 不同 *), <<24046, 24322>> (* 差异 *) >>],
       [intent |-> "comparison", kind |-> "rest", de |-> FALSE,
        words |-> << <<100, 105, 102, 102, 101, 114, 101, 110, 99, 101, 32, 98, 101, 116, 119, 101, 101, 110>> (* difference between *), <<65, 32, 118, 115, 32, 66>> (* A vs B *) >>],
       [intent |-> "antonym", kind |-> "suffix", de |-> TRUE,
        words |-> << <<21453, 20041, 35789>> (* 反义词 *), <<30456, 21453, 35789>> (* 相反词 *) >>],
       [intent |-> "antonym", kind |-> "rest", de |-> FALSE,
        words |-> << <<97, 110, 116, 111, 110, 121, 109, 115>> (* antonyms *), <<97, 110, 116, 111, 110, 121, 109>> (* antonym *), <<111, 112, 112, 111, 115, 105, 116, 101, 32, 111, 102>> (* opposite of *) >>],
       [intent |-> "usage_note", kind |-> "suffix", de |-> FALSE,
        words |-> << <<24590, 20040, 29992>> (* 怎么用 *), <<29992, 27861>> (* 用法 *), <<35821, 27861>> (* 语法 *), <<20351, 29992>> (* 使用 *) >>],
       [intent |-> "usage_note", kind |-> "rest", de |-> FALSE,
        words |-> << <<104, 111, 119, 32, 116, 111, 32, 117, 115, 101>> (* how to use *), <<103, 114, 97, 109, 109, 97, 114, 32, 111, 102>> (* grammar of *) >>],
       [intent |-> "word_family", kind |-> "suffix", de |-> TRUE,
        words |-> << <<27966, 29983, 35789>> (* 派生词 *), <<30456, 20851, 35789>> (* 相关词 *), <<35789, 24615>> (* 词性 *), <<21464, 24418>> (* 变形 *) >>],
       [intent |-> "word_family", kind |-> "rest", de |-> FALSE,
        words |-> << <<114, 101, 108, 97, 116, 101, 100, 32, 119, 111, 114, 100, 115>> (* related words *), <<100, 101, 114, 105, 118, 97, 116, 105, 118, 101, 115, 32, 111, 102>> (* derivatives of *), <<100, 101, 114, 105, 118, 97, 116, 105, 118, 101, 32, 111, 102>> (* derivative of *) >>],
       [intent |-> "formality", kind |-> "suffix", de |-> FALSE,
        words |-> << <<27491, 24335, 21527>> (* 正式吗 *), <<27491, 24335, 29992, 35821>> (* 正式用语 *), <<21475, 35821, 34920, 36798>> (* 口语表达 *), <<27491, 24335, 31243, 24230>> (* 正式程度 *) >>],
       [intent |-> "formality", kind |-> "rest", de |-> FALSE,
        words |-> << <<102, 111, 114, 109, 97, 108, 32, 111, 114, 32, 105, 110, 102, 111, 114, 109, 97, 108>> (* formal or informal *), <<102, 111, 114, 109, 97, 108, 105, 116, 121, 32, 111, 102>> (* formality of *) >>] >>

\* re.search(pattern, query, re.IGNORECASE): the groups of its match, none
\* when there is no match
Search(pattern, query_) ==
    CASE pattern.kind = "suffix" -> MatchSuffix(query_, pattern.words, pattern.de)
      [] pattern.kind = "comparison" ->
             MatchComparison(query_, { 21644 (* 和 *), 19982 (* 与 *) }, pattern.words)
      [] OTHER -> MatchPrefix(query_, pattern.words, pattern.kind)

\* lines 388-394: what a group proposes as the target
GroupCandidate(g) ==
    LET Of(g_clean) ==
            IF CountOf(g_clean, AsciiLetter) > 0 THEN g_clean
            ELSE _clean_chinese_candidate(g_clean)
    IN  Of(strip(g))

_pattern_based_recognition(query_) ==
    LET Last(valid) == IF valid = {} THEN 0 ELSE MaxOf(valid)
        \* the loop of line 386: the last group that proposes a valid target,
        \* 0 when none does
        ValidGroup(groups) ==
            Last({n \in 1..Len(groups) :
                     groups[n] # <<>> /\ _is_valid_target(GroupCandidate(groups[n]), query_)})
        \* lines 395-419, p being the pattern at which the loops of lines
        \* 362-363 return, 0 when they run to their end
        Answer(fallback, groups_of, valid_of, p) ==
            IF p = 0
            THEN [type |-> "general", target_word |-> fallback,
                  confidence |-> Rat(3, 10), method |-> "pattern"]
            ELSE IF valid_of[p] > 0
            THEN [type |-> patterns[p].intent,
                  target_word |-> GroupCandidate(groups_of[p][valid_of[p]]),
                  confidence |-> Rat(3, 4), method |-> "pattern"]
            ELSE [type |-> patterns[p].intent, target_word |-> fallback,
                  confidence |-> Rat(3, 5), method |-> "pattern"]
        \* the loops return at the first pattern that matches and has a valid
        \* group or a fallback that is not empty
        Among(fallback, groups_of, valid_of) ==
            Answer(fallback, groups_of, valid_of,
                   MinOrZero({p \in 1..Len(groups_of) :
                                 groups_of[p] # <<>> /\ (valid_of[p] > 0 \/ fallback # <<>>)}))
        From(fallback, groups_of) ==
            Among(fallback, groups_of, [p \in 1..Len(groups_of) |-> ValidGroup(groups_of[p])])
    IN  From(_extract_target_word(query_),
             [p \in 1..Len(patterns) |-> Search(patterns[p], query_)])

-----------------------------------------------------------------------------
(* intent_recognizer.py: the three signals and their combination.  A
   confidence is a fraction. *)

\* a count of keywords taken as the score, without the division of line 466
NormalisedRaw(score, max_score) == Rat(score, 1)

\* a score over twice the maximum
NormalisedByTwiceMax(score, max_score) ==
    IF max_score > 0 THEN Rat(score, 2 * max_score) ELSE Rat(0, 1)

\* scores[intent] / max_score if max_score > 0 else 0
Normalised(score, max_score) == IF max_score > 0 THEN Rat(score, max_score) ELSE Rat(0, 1)

\* IntentRecognizer.__init__
IntentRecognizer == [intent_examples |-> INTENT_EXAMPLES, intent_keywords |-> INTENT_KEYWORDS]

_keyword_based_recognition(self_, query_) ==
    LET \* lines 468-475, the best intent being at a place of the scores
        Result(scores, best_intent) ==
            [type |-> IntentLabels[best_intent],
             target_word |-> _extract_target_word(query_),
             confidence |-> scores[best_intent],
             method |-> "keyword"]
        Best(scores) == Result(scores, FirstBestRat(scores))
        Scores(counts, max_score) ==
            [n \in 1..Len(counts) |-> Normalised(counts[n], max_score)]
        \* lines 464-466
        From(counts) == Best(Scores(counts, counts[FirstBest(counts)]))
        \* lines 459-462: how many keywords of each intent the query holds
    IN  From([n \in 1..Len(IntentLabels) |->
                 Cardinality({m \in 1..Len(self_.intent_keywords[IntentLabels[n]]) :
                                 Contains(self_.intent_keywords[IntentLabels[n]][m], query_)})])

_semantic_similarity_recognition(self_, query_) ==
    LET BestOrZero(intent_scores) ==
            IF intent_scores = <<>> THEN Rat(0, 1)
            ELSE intent_scores[FirstBestRat(intent_scores)]
        \* lines 481-485: max(intent_scores) over examples[:5]
        BestSimilarity(examples) ==
            BestOrZero([n \in 1..Min2(5, Len(examples)) |->
                           _calculate_text_similarity(query_, examples[n])])
        \* lines 487-494, the best intent being at a place of the scores
        Result(scores, best_intent) ==
            [type |-> IntentLabels[best_intent],
             target_word |-> _extract_target_word(query_),
             confidence |-> scores[best_intent],
             method |-> "semantic"]
        Best(scores) == Result(scores, FirstBestRat(scores))
    IN  Best([n \in 1..Len(IntentLabels) |-> BestSimilarity(self_.intent_examples[IntentLabels[n]])])

\* every method weighing the same
EqualMethodWeight(method) == Rat(1, 3)

\* method_weights.get(result.get("method"), 0.1)
method_weight(method) ==
    CASE method = "keyword"  -> Rat(4, 10)
      [] method = "semantic" -> Rat(4, 10)
      [] method = "pattern"  -> Rat(2, 10)
      [] OTHER               -> Rat(1, 10)

RECURSIVE intent_scores_after(_, _)
\* the dict intent_scores after the first n results: the intent types in the
\* order they were first met, each with its sum
intent_scores_after(intent_results, n) ==
    LET \* lines 31-32: the share of a type added to the dict, the type being
        \* at a place of it or, when that is 0, new
        AddAt(before, type_, share, at) ==
            IF at = 0 THEN Append(before, [type |-> type_, score |-> share])
            ELSE [before EXCEPT ![at].score = RatAdd(@, share)]
        \* lines 27-32 for one result
        Add(before, result) ==
            AddAt(before, result.type,
                  RatMul(result.confidence, method_weight(result.method)),
                  MinOrZero({m \in 1..Len(before) : before[m].type = result.type}))
    IN  IF n = 0 THEN <<>>
        ELSE Add(intent_scores_after(intent_results, n - 1), intent_results[n])

\* the results _combine_intent_results can return
_combine_intent_results(intent_results) ==
    LET NotEmpty(t) == t # <<>>
        CountIn(items, t) == Cardinality({n \in 1..Len(items) : items[n] = t})
        \* max(set(target_words), key=target_words.count): the targets proposed
        \* most often; which of several the call returns depends on the order
        \* of a set of strings
        most_common(target_words) ==
            IF target_words = <<>> THEN {<<>>}
            ELSE {t \in Range(target_words) :
                     \A o \in Range(target_words) :
                         CountIn(target_words, o) <= CountIn(target_words, t)}
        \* lines 41-46, the best intent being at a place of the dict
        Results(intent_scores, best_intent) ==
            {[type |-> intent_scores[best_intent].type, target_word |-> t,
              confidence |-> intent_scores[best_intent].score,
              all_scores |-> intent_scores] :
                 t \in most_common(SelectSeq([n \in 1..Len(intent_results) |->
                                                 intent_results[n].target_word], NotEmpty))}
        \* lines 34-53
        From(intent_scores) ==
            IF intent_scores = <<>>
            THEN {[type |-> "general", target_word |-> <<>>, confidence |-> Rat(1, 10),
                   all_scores |-> <<>>]}
            ELSE Results(intent_scores,
                         FirstBestRat([n \in 1..Len(intent_scores) |->
                                          intent_scores[n].score]))
    IN  From(intent_scores_after(intent_results, Len(intent_results)))

\* the result of lines 48-53 in the place of the one of line 430
EmptyQueryDefault ==
    [type |-> "general", target_word |-> <<>>, confidence |-> Rat(1, 10), method |-> "keyword"]

\* line 430: what recognize_intent returns for the empty query
EmptyQueryResult ==
    [type |-> "general", target_word |-> <<>>, confidence |-> Rat(0, 1), method |-> "keyword"]

\* line 438: keyword_intent.get("confidence", 0) > 0.8
IsFastPath(keyword_intent_) == RatLess(Rat(8, 10), keyword_intent_.confidence)

-----------------------------------------------------------------------------
(* Calls of IntentRecognizer.recognize_intent *)

\* the most blanks between the opening words of a query and its term
MaxBlanks == 1

\* the queries of the scenarios, queries from the tables and comments of the
\* code, and variations of them
ScenarioQueries ==
    { <<20160, 20040, 26159, 32, 115, 101, 110, 115, 105, 98, 108, 101>> (* 什么是 sensible *),
      <<87, 104, 97, 116, 32, 105, 115, 32, 116, 104, 101, 32, 109, 101, 97, 110, 105, 110, 103, 32, 111, 102, 32, 34, 101, 112, 104, 101, 109, 101, 114, 97, 108, 34, 63>> (* What is the meaning of "ephemeral"? *),
      <<87, 104, 97, 116, 32, 105, 115, 32, 116, 104, 101, 32, 109, 101, 97, 110, 105, 110, 103, 32, 111, 102, 32, 34, 69, 112, 104, 101, 109, 101, 114, 97, 108, 34, 63>> (* What is the meaning of "Ephemeral"? *),
      <<119, 104, 97, 116, 32, 105, 115, 32, 34, 65, 112, 112, 108, 101, 34>> (* what is "Apple" *),
      <<39, 66, 105, 103, 32, 65, 112, 112, 108, 101, 39, 32, 112, 105, 101>> (* 'Big Apple' pie *),
      <<115, 101, 110, 115, 105, 98, 108, 101, 26377, 20160, 20040, 37322, 20041>> (* sensible有什么释义 *),
      <<115, 101, 110, 115, 105, 98, 108, 101, 32, 30340, 20363, 21477>> (* sensible 的例句 *),
      <<35831, 32473, 20986, 32, 115, 101, 110, 115, 105, 98, 108, 101, 32, 30340, 21516, 20041, 35789>> (* 请给出 sensible 的同义词 *),
      <<20160, 20040, 26159, 109, 101, 116, 97, 112, 104, 111, 114>> (* 什么是metaphor *),
      <<119, 104, 97, 116, 32, 105, 115, 32, 20160, 20040, 26159, 109, 101, 116, 97, 112, 104, 111, 114>> (* what is 什么是metaphor *),
      <<98, 105, 103, 30340, 21516, 20041, 35789, 21644, 36817, 20041, 35789>> (* big的同义词和近义词 *),
      <<115, 101, 110, 115, 105, 98, 108, 101, 21644, 115, 101, 110, 115, 105, 116, 105, 118, 101, 30340, 21306, 21035>> (* sensible和sensitive的区别 *),
      <<112, 114, 111, 118, 105, 100, 101, 32, 97, 110, 32, 101, 120, 97, 109, 112, 108, 101, 32, 111, 102, 32, 97, 110, 97, 108, 121, 122, 101>> (* provide an example of analyze *),
      <<112, 114, 111, 118, 105, 100, 101, 32, 97, 110, 32, 97, 110, 97, 108, 121, 122, 101>> (* provide an analyze *),
      <<117, 115, 101, 32, 65, 112, 112, 108, 101, 32, 105, 110, 32, 97, 32, 115, 101, 110, 116, 101, 110, 99, 101>> (* use Apple in a sentence *),
      <<36825, 20010, 21333, 35789, 24590, 20040, 24565>> (* 这个单词怎么念 *),
      <<22825, 27668, 20026, 20160, 20040, 22909>> (* 天气为什么好 *),
      <<119, 104, 97, 116, 32, 105, 115, 32, 97, 110, 32, 97, 110, 97, 108, 121, 122, 101>> (* what is an analyze *),
      <<119, 104, 97, 116, 32, 100, 111, 101, 115, 32, 112, 114, 111, 118, 105, 100, 101, 32, 97, 110, 32, 97, 110, 97, 108, 121, 122, 101, 32, 109, 101, 97, 110>> (* what does provide an analyze mean *) }

\* the queries of the model: the empty one, blank ones, those of the
\* scenarios, and an opening, blanks, a term that may stand in quotes, and
\* an ending
Queries ==
    LET Blanks(n) == [m \in 1..n |-> 32 (*   *)]
        Openings == { <<>>, <<20160, 20040, 26159>> (* 什么是 *), <<116, 101, 108, 108, 32, 109, 101, 32, 97, 98, 111, 117, 116>> (* tell me about *) }
        Quotes ==
            { [open |-> <<>>, close |-> <<>>],
              [open |-> <<34>> (* " *), close |-> <<34>> (* " *)],
              [open |-> <<12304>> (* 【 *), close |-> <<12305>> (* 】 *)] }
        Terms == { <<115, 101, 110, 115, 105, 98, 108, 101>> (* sensible *), <<65, 112, 112, 108, 101>> (* Apple *), <<65>> (* A *), <<119, 104, 97, 116>> (* what *), <<33529, 26524>> (* 苹果 *) }
        Endings == { <<>>, <<30340, 21516, 20041, 35789>> (* 的同义词 *), <<26159, 20160, 20040>> (* 是什么 *) }
    IN  {<<>>} \cup {Blanks(n) : n \in 1..(MaxBlanks + 1)} \cup ScenarioQueries
            \cup {o \o Blanks(n) \o q.open \o t \o q.close \o e :
                     o \in Openings, n \in 0..MaxBlanks, q \in Quotes, t \in Terms,
                     e \in Endings}

\* the retriever takes no part
RetrieverIdle ==
    /\ retrieval_strategies = DefaultWeights
    /\ env = NoEnv
    /\ strategies = DefaultStrategies
    /\ intent = None
    /\ top_k = 0
    /\ all_results = [s \in Strategies |-> <<>>]
    /\ caught = {}
    /\ cursor = 0
    /\ fused_results = <<>>
    /\ reranked_results = <<>>
    /\ returns = <<>>

retriever == <<retrieval_strategies, env, strategies, intent, top_k, all_results, caught,
               cursor, fused_results, reranked_results, returns>>

InitIntent ==
    /\ RetrieverIdle
    /\ query \in Queries
    /\ keyword_intent = None
    /\ semantic_intent = None
    /\ pattern_intent = None
    /\ recognized = None
    /\ intent_recognizer = IntentRecognizer
    /\ served = <<>>
    /\ validated = None
    /\ ExtrasIdle
    /\ pc = "recognize"

\* line 429: if not query
RecognizeEmpty ==
    /\ pc = "recognize"
    /\ query = <<>>
    /\ recognized' = EmptyQueryResult
    /\ pc' = "recognized"
    /\ UNCHANGED <<kept, retriever, query, keyword_intent, semantic_intent, pattern_intent>>

\* line 437: keyword_intent = self._keyword_based_recognition(query_lower)
KeywordSignal ==
    /\ pc = "recognize"
    /\ query # <<>>
    /\ keyword_intent' = _keyword_based_recognition(intent_recognizer, lower(query))
    /\ pc' = "keyword"
    /\ UNCHANGED <<kept, retriever, query, semantic_intent, pattern_intent, recognized>>

\* lines 438-441: the fast path
FastPath ==
    /\ pc = "keyword"
    /\ IsFastPath(keyword_intent)
    /\ recognized' = [keyword_intent EXCEPT
                         !.target_word = Or(_extract_target_word(query), @)]
    /\ pc' = "recognized"
    /\ UNCHANGED <<kept, retriever, query, keyword_intent, semantic_intent, pattern_intent>>

\* line 444: semantic_intent = self._semantic_similarity_recognition(query_lower)
SemanticSignal ==
    /\ pc = "keyword"
    /\ ~IsFastPath(keyword_intent)
    /\ semantic_intent' = _semantic_similarity_recognition(intent_recognizer, lower(query))
    /\ pc' = "semantic"
    /\ UNCHANGED <<kept, retriever, query, keyword_intent, pattern_intent, recognized>>

\* line 447: pattern_intent = _pattern_based_recognition(query_original)
PatternSignal ==
    /\ pc = "semantic"
    /\ pattern_intent' = _pattern_based_recognition(query)
    /\ pc' = "pattern"
    /\ UNCHANGED <<kept, retriever, query, keyword_intent, semantic_intent, recognized>>

\* lines 450-453: the combined result
Combine ==
    /\ pc = "pattern"
    /\ \E combined \in _combine_intent_results(<<keyword_intent, semantic_intent,
                                                 pattern_intent>>) :
          recognized' = [combined EXCEPT
                            !.target_word = Or(@, _extract_target_word(query))]
    /\ pc' = "recognized"
    /\ UNCHANGED <<kept, retriever, query, keyword_intent, semantic_intent, pattern_intent>>

NextIntent ==
    \/ RecognizeEmpty
    \/ KeywordSignal
    \/ FastPath
    \/ SemanticSignal
    \/ PatternSignal
    \/ Combine

SpecIntent == InitIntent /\ [][NextIntent]_vars

-----------------------------------------------------------------------------
(* A session: calls of Retriever.multi_way_retrieve and of
   IntentRecognizer.recognize_intent, one after the other, on one Retriever
   and one IntentRecognizer over an index that does not change *)

\* how many calls a session makes
MaxCalls == 3

\* the queries of a session: the empty one, one of the fast path and one of
\* the combined path
SessionQueries == { <<>>, <<115, 101, 110, 115, 105, 98, 108, 101, 30340, 21516, 20041, 35789>> (* sensible的同义词 *), <<22825, 27668, 20026, 20160, 20040, 22909>> (* 天气为什么好 *) }

\* the calls of a session
Calls ==
    {[kind |-> "recognize_intent", query |-> q] : q \in SessionQueries}
        \cup {[kind |-> "multi_way_retrieve", query |-> <<115, 101, 110, 115, 105, 98, 108, 101, 30340, 21516, 20041, 35789>> (* sensible的同义词 *), intent |-> i,
               top_k |-> 2, strategies |-> r] :
                  i \in {[type |-> "synonym", target_word |-> "sensible"],
                         [type |-> "definition", target_word |-> "Sensible"]},
                  r \in {DefaultStrategies, <<"exact_match", "semantic">>}}

InitSession ==
    /\ retrieval_strategies \in Configurations
    /\ env \in [embed_ok : BOOLEAN, failing : { {}, {"keyword_bm25"} }, hanging : { {} },
                semantic_hits : {<<>>}]
    /\ strategies = <<>>
    /\ intent = None
    /\ top_k = 0
    /\ all_results = [s \in {} |-> <<>>]
    /\ caught = {}
    /\ cursor = 1
    /\ fused_results = <<>>
    /\ reranked_results = <<>>
    /\ returns = <<>>
    /\ query = <<>>
    /\ keyword_intent = None
    /\ semantic_intent = None
    /\ pattern_intent = None
    /\ recognized = None
    /\ intent_recognizer = IntentRecognizer
    /\ served = <<>>
    /\ validated = None
    /\ ExtrasIdle
    /\ pc = "idle"

\* retriever.multi_way_retrieve(query, intent, top_k, strategies)
CallRetrieve ==
    /\ pc = "idle"
    /\ Len(served) < MaxCalls
    /\ \E c \in Calls :
          /\ c.kind = "multi_way_retrieve"
          /\ query' = c.query
          /\ intent' = c.intent
          /\ top_k' = c.top_k
          /\ strategies' = c.strategies
    /\ all_results' = [s \in {} |-> <<>>]
    /\ caught' = {}
    /\ cursor' = 1
    /\ fused_results' = <<>>
    /\ reranked_results' = <<>>
    /\ keyword_intent' = None
    /\ semantic_intent' = None
    /\ pattern_intent' = None
    /\ recognized' = None
    /\ pc' = "encode"
    /\ UNCHANGED <<kept, retrieval_strategies, env, returns>>

\* intent_recognizer.recognize_intent(query)
CallRecognize ==
    /\ pc = "idle"
    /\ Len(served) < MaxCalls
    /\ \E c \in Calls :
          /\ c.kind = "recognize_intent"
          /\ query' = c.query
    /\ keyword_intent' = None
    /\ semantic_intent' = None
    /\ pattern_intent' = None
    /\ recognized' = None
    /\ pc' = "recognize"
    /\ UNCHANGED <<kept, retriever>>

\* the call in progress, as the caller made it
CurrentCall ==
    IF pc = "recognized" THEN [kind |-> "recognize_intent", query |-> query]
    ELSE [kind |-> "multi_way_retrieve", query |-> query, intent |-> intent,
          top_k |-> top_k, strategies |-> strategies]

\* what the call in progress gave its caller
CurrentOutcome == IF pc = "recognized" THEN recognized ELSE returns[Len(returns)]

\* the caller has its answer, or the exception of the call
Respond ==
    /\ pc \in {"returned", "raised", "recognized"}
    /\ served' = Append(served, [call |-> CurrentCall, outcome |-> CurrentOutcome])
    /\ pc' = "idle"
    /\ UNCHANGED <<extras, intent_recognizer, validated, retriever, query, keyword_intent, semantic_intent,
                   pattern_intent, recognized>>

NextSession ==
    \/ CallRetrieve
    \/ CallRecognize
    \/ Respond
    \/ Encode
    \/ EncodeRaises
    \/ ExecuteSemantic
    \/ ExecuteKeywordBm25
    \/ ExecuteIntentionAware
    \/ ExecuteUnknown
    \/ ExecuteDone
    \/ Fuse
    \/ Rerank
    \/ ReturnResults
    \/ RecognizeEmpty
    \/ KeywordSignal
    \/ FastPath
    \/ SemanticSignal
    \/ PatternSignal
    \/ Combine

SpecSession == InitSession /\ [][NextSession]_vars

-----------------------------------------------------------------------------
(* A direct call of _combine_intent_results on any list of up to three
   results *)

\* the results a signal can hand over under one of the methods
SignalResults(methods) ==
    {[type |-> t, target_word |-> w, confidence |-> c, method |-> m] :
        t \in {"synonym", "definition"},
        w \in {<<>>, <<97, 112, 112, 108, 101>> (* apple *), <<98, 97, 110, 97, 110, 97>> (* banana *)},
        c \in {Rat(0, 1), Rat(1, 2)},
        m \in methods}

\* the list intent_results: the results that are there, in their order
intent_results ==
    LET Present(result) == result # None
    IN  SelectSeq(<<keyword_intent, semantic_intent, pattern_intent>>, Present)

InitCombine ==
    /\ RetrieverIdle
    /\ query = <<>>
    /\ keyword_intent \in SignalResults({"keyword"}) \cup {None}
    /\ semantic_intent \in SignalResults({"semantic"}) \cup {None}
    /\ pattern_intent \in SignalResults({"pattern", "rule"}) \cup {None}
    /\ recognized = None
    /\ intent_recognizer = None
    /\ served = <<>>
    /\ validated = None
    /\ ExtrasIdle
    /\ pc = "combine"

\* _combine_intent_results(intent_results)
CombineResults ==
    /\ pc = "combine"
    /\ recognized' \in _combine_intent_results(intent_results)
    /\ pc' = "combined"
    /\ UNCHANGED <<kept, retriever, query, keyword_intent, semantic_intent, pattern_intent>>

NextCombine == CombineResults

SpecCombine == InitCombine /\ [][NextCombine]_vars

-----------------------------------------------------------------------------
(* A direct call of _is_valid_target on any candidate and query *)

\* the candidates: none, blanks, single characters, digits, stop words and
\* words that hold one, words of two letters and more, terms of several
\* words, ideographs, and candidates with a question mark
Candidates ==
    { <<>>, <<32>> (*   *), <<32, 32>> (*    *), <<97>> (* a *), <<65>> (* A *), <<32, 65, 32>> (*  A  *), <<55>> (* 7 *), <<49, 50, 51>> (* 123 *), <<63>> (* ? *), <<65311>> (* ？ *), <<35789>> (* 词 *),
      <<97, 98>> (* ab *), <<97, 49>> (* a1 *), <<65, 49>> (* A1 *), <<65, 112, 112, 108, 101>> (* Apple *), <<32, 97, 112, 112, 108, 101, 32>> (*  apple  *), <<115, 101, 110, 115, 105, 98, 108, 101>> (* sensible *), <<73, 84>> (* IT *),
      <<119, 104, 97, 116>> (* what *), <<87, 104, 97, 116>> (* What *), <<119, 104, 97, 116, 101, 118, 101, 114>> (* whatever *), <<115, 111, 109, 101, 104, 111, 119>> (* somehow *), <<20160, 20040>> (* 什么 *), <<20026, 20160, 20040, 22909>> (* 为什么好 *), <<26377, 20160, 20040>> (* 有什么 *),
      <<33529, 26524>> (* 苹果 *), <<33529, 26524, 63>> (* 苹果? *), <<33529>> (* 苹 *), <<22825, 27668, 22909>> (* 天气好 *), <<120, 63>> (* x? *), <<49, 50, 32, 51, 52>> (* 12 34 *),
      <<98, 105, 103, 32, 114, 101, 100, 32, 97, 112, 112, 108, 101>> (* big red apple *), <<97, 32, 98, 105, 103, 32, 114, 101, 100, 32, 97, 112, 112, 108, 101>> (* a big red apple *), <<49, 32, 50, 32, 51, 32, 52>> (* 1 2 3 4 *), <<66, 105, 103, 32, 65, 112, 112, 108, 101>> (* Big Apple *) }

\* the queries the candidates are validated against
ValidationQueries ==
    { <<>>, <<65>> (* A *), <<71, 114, 97, 100, 101, 32, 65, 32, 105, 115, 32, 49, 50, 51>> (* Grade A is 123 *), <<119, 104, 97, 116, 32, 105, 115, 32, 97, 49, 32, 120, 63, 32, 55>> (* what is a1 x? 7 *), <<33529, 26524, 63, 32, 49, 50, 32, 51, 52>> (* 苹果? 12 34 *),
      <<97, 32, 98, 105, 103, 32, 114, 101, 100, 32, 97, 112, 112, 108, 101>> (* a big red apple *), <<22825, 27668, 20026, 20160, 20040, 22909>> (* 天气为什么好 *), <<65, 112, 112, 108, 101, 32, 21644, 32, 33529, 26524, 30340, 21306, 21035>> (* Apple 和 苹果的区别 *), <<65311, 32, 35789, 32, 119, 104, 97, 116, 101, 118, 101, 114>> (* ？ 词 whatever *) }

InitValid ==
    /\ RetrieverIdle
    /\ query \in ValidationQueries
    /\ keyword_intent = None
    /\ semantic_intent = None
    /\ pattern_intent = None
    /\ recognized = None
    /\ intent_recognizer = None
    /\ served = <<>>
    /\ ExtrasIdle
    /\ validated \in {[candidate |-> c, result |-> None] : c \in Candidates}
    /\ pc = "validate"

\* _is_valid_target(candidate, query)
Validate ==
    /\ pc = "validate"
    /\ validated' = [validated EXCEPT !.result = _is_valid_target(validated.candidate, query)]
    /\ pc' = "validated"
    /\ UNCHANGED <<extras, intent_recognizer, served, retriever, recognizer>>

NextValid == Validate

SpecValid == InitValid /\ [][NextValid]_vars


-----------------------------------------------------------------------------
(* A direct call of Retriever._keyword_bm25_retrieval on a query text *)

\* the query texts, by their runs of letters: the empty text, a text of
\* short and stop words only, one keyword, two keywords, a keyword written
\* twice, and six keywords of which the index knows the sixth only
TextQueries ==
    { <<>>,
      <<"The", "is", "an">>,
      <<"sensible">>,
      <<"Happy", "the", "sensible">>,
      <<"sensible", "is", "sensible", "happy">>,
      <<"wise", "wise", "wise", "wise", "wise", "happy">> }

\* the query argument of the call
Text(words) == [kind |-> "text", words |-> words]

\* the top_k argument of the call
LexicalLimits == {1, 2, 3}

InitLexical ==
    /\ retrieval_strategies = DefaultWeights
    /\ env \in [embed_ok : {TRUE}, failing : { {}, {"keyword_bm25"} }, hanging : { {} },
                semantic_hits : {<<>>}]
    /\ strategies = DefaultStrategies
    /\ intent \in [type : {"general", "synonym", "definition", "example"},
                   target_word : {"", "sensible", "happy"}]
    /\ top_k = 0
    /\ all_results = [s \in Strategies |-> <<>>]
    /\ caught = {}
    /\ cursor = 0
    /\ fused_results = <<>>
    /\ reranked_results = <<>>
    /\ returns = <<>>
    /\ query = <<>>
    /\ keyword_intent = None
    /\ semantic_intent = None
    /\ pattern_intent = None
    /\ recognized = None
    /\ intent_recognizer = None
    /\ served = <<>>
    /\ validated = None
    /\ lexical \in {[query |-> Text(words), top_k |-> limit, result |-> None] :
                        words \in TextQueries, limit \in LexicalLimits}
    /\ RewriterIdle
    /\ ListeningIdle
    /\ WrapperIdle
    /\ pc = "lexical"

\* self._keyword_bm25_retrieval(query, intent, top_k)
CallKeywordBm25 ==
    /\ pc = "lexical"
    /\ lexical' = [lexical EXCEPT
                      !.result = _keyword_bm25_retrieval(lexical.query, intent, lexical.top_k)]
    /\ pc' = "lexical_done"
    /\ UNCHANGED <<intent_recognizer, served, validated, rewriting, listening, wrapper,
                   retriever, recognizer>>

NextLexical == CallKeywordBm25

SpecLexical == InitLexical /\ [][NextLexical]_vars


-----------------------------------------------------------------------------
(* The query rewrite strategy, EnhancedRewriteQueryStrategy, where neither
   jieba nor nltk is installed: _tokenize falls back to its regex, no term is
   lemmatized and no WordNet synonym is added *)

default_stopwords_zh ==
    { <<30340>> (* 的 *), <<20102>> (* 了 *), <<22312>> (* 在 *), <<26159>> (* 是 *), <<25105>> (* 我 *), <<26377>> (* 有 *), <<21644>> (* 和 *), <<23601>> (* 就 *), <<19981>> (* 不 *), <<20154>> (* 人 *), <<37117>> (* 都 *), <<19968>> (* 一 *),
      <<20160, 20040>> (* 什么 *), <<21738, 20123>> (* 哪些 *), <<24590, 20040>> (* 怎么 *), <<22914, 20309>> (* 如何 *), <<20026, 20160, 20040>> (* 为什么 *), <<21527>> (* 吗 *), <<21602>> (* 呢 *), <<21543>> (* 吧 *), <<21834>> (* 啊 *) }

default_stopwords_en ==
    { <<116, 104, 101>> (* the *), <<105, 115>> (* is *), <<97, 114, 101>> (* are *), <<97>> (* a *), <<97, 110>> (* an *), <<105, 110>> (* in *), <<111, 110>> (* on *), <<111, 102>> (* of *), <<102, 111, 114>> (* for *), <<116, 111>> (* to *), <<104, 111, 119>> (* how *),
      <<119, 104, 97, 116>> (* what *), <<119, 104, 105, 99, 104>> (* which *), <<119, 104, 121>> (* why *), <<100, 111>> (* do *), <<100, 111, 101, 115>> (* does *), <<100, 105, 100>> (* did *) }

\* [\w']
TokenChar == [chars |-> WordChar.chars \cup { 39 (* ' *) }, negated |-> FALSE]

\* any(word in q for word in words)
AnyIn(words, q) == \E w \in words : Contains(w, q)

\* str.count(sub) for a sub that cannot overlap itself
count(s, sub) == Cardinality({at \in 1..Len(s) : StartsWithAt(s, sub, at)})

_detect_language(query_) ==
    IF \E n \in 1..Len(query_) : query_[n] \in 19968..40959 THEN "zh" ELSE "en"

\* re.findall(r"[\w']+", query)
_tokenize(query_, lang) == Pieces(query_, Runs(query_, TokenChar))

_extract_key_terms_from_tokens(tokens, lang) ==
    LET stopwords == IF lang = "zh" THEN default_stopwords_zh ELSE default_stopwords_en
        IsTerm(t) == lower(t) \notin stopwords /\ Len(t) > 1
        terms     == SelectSeq(tokens, IsTerm)
        first     == SortedSeq({n \in 1..Len(terms) : \A m \in 1..(n - 1) : terms[m] # terms[n]})
    IN  [n \in 1..Len(first) |-> terms[first[n]]]

_assess_query_complexity(query_) ==
    IF Len(split(query_)) <= 4 THEN "low"
    ELSE IF Len(split(query_)) <= 8 THEN "medium"
    ELSE "high"

_identify_potential_issues(query_, tokens) ==
    LET vague_terms == { <<24590, 20040, 26679>> (* 怎么样 *), <<22914, 20309>> (* 如何 *), <<20160, 20040>> (* 什么 *), <<21738, 20123>> (* 哪些 *), <<104, 111, 119>> (* how *), <<119, 104, 97, 116>> (* what *), <<119, 104, 105, 99, 104>> (* which *), <<119, 104, 121>> (* why *) }
        professional_terms == { <<35821, 27861>> (* 语法 *), <<26102, 24577>> (* 时态 *), <<21477, 22411>> (* 句型 *), <<35789, 24615>> (* 词性 *), <<115, 121, 110, 116, 97, 120>> (* syntax *), <<116, 101, 110, 115, 101>> (* tense *) }
    IN  (IF (\E n \in 1..Len(tokens) : lower(tokens[n]) \in vague_terms) /\ Len(tokens) <= 4
         THEN {"vague"} ELSE {})
        \cup (IF \/ count(query_, <<30340>> (* 的 *)) > 2
                 \/ count(query_, <<97, 110, 100>> (* and *)) > 2
                 \/ count(query_, <<21644>> (* 和 *)) > 1
              THEN {"ambiguous"} ELSE {})
        \cup (IF Len(tokens) > 12 THEN {"complex"} ELSE {})
        \cup (IF \E n \in 1..Len(tokens) : tokens[n] \in professional_terms
              THEN {"professional"} ELSE {})

_classify_query_type(query_, lang) ==
    LET q == lower(query_)
    IN  IF lang = "zh"
        THEN CASE AnyIn({ <<26159, 20160, 20040>> (* 是什么 *), <<23450, 20041>> (* 定义 *), <<24847, 24605>> (* 意思 *), <<21547, 20041>> (* 含义 *) }, q) -> "definition"
               [] AnyIn({ <<36817, 20041, 35789>> (* 近义词 *), <<21516, 20041, 35789>> (* 同义词 *), <<30456, 20284, 35789>> (* 相似词 *) }, q) -> "synonym"
               [] AnyIn({ <<20363, 23376>> (* 例子 *), <<31034, 20363>> (* 示例 *), <<20030, 20363>> (* 举例 *) }, q) -> "example"
               [] AnyIn({ <<21306, 21035>> (* 区别 *), <<19981, 21516>> (* 不同 *), <<24046, 24322>> (* 差异 *), <<23545, 27604>> (* 对比 *) }, q) -> "comparison"
               [] AnyIn({ <<29992, 27861>> (* 用法 *), <<22914, 20309, 20351, 29992>> (* 如何使用 *), <<24590, 20040, 29992>> (* 怎么用 *) }, q) -> "usage"
               [] AnyIn({ <<35299, 37322>> (* 解释 *), <<35828, 26126>> (* 说明 *), <<35762, 35299>> (* 讲解 *) }, q) -> "explanation"
               [] OTHER -> "general"
        ELSE CASE AnyIn({ <<119, 104, 97, 116, 32, 105, 115>> (* what is *), <<100, 101, 102, 105, 110, 105, 116, 105, 111, 110, 32, 111, 102>> (* definition of *), <<109, 101, 97, 110, 105, 110, 103, 32, 111, 102>> (* meaning of *) }, q) -> "definition"
               [] AnyIn({ <<115, 121, 110, 111, 110, 121, 109>> (* synonym *), <<115, 105, 109, 105, 108, 97, 114, 32, 116, 111>> (* similar to *), <<115, 105, 109, 105, 108, 97, 114, 32, 119, 111, 114, 100, 115>> (* similar words *) }, q) -> "synonym"
               [] AnyIn({ <<101, 120, 97, 109, 112, 108, 101>> (* example *), <<101, 120, 97, 109, 112, 108, 101, 115>> (* examples *), <<117, 115, 101, 32, 99, 97, 115, 101>> (* use case *) }, q) -> "example"
               [] AnyIn({ <<100, 105, 102, 102, 101, 114, 101, 110, 99, 101>> (* difference *), <<118, 115>> (* vs *), <<118, 115, 46>> (* vs. *) }, q) -> "comparison"
               [] AnyIn({ <<104, 111, 119, 32, 116, 111, 32, 117, 115, 101>> (* how to use *), <<117, 115, 97, 103, 101>> (* usage *), <<117, 115, 101, 32, 99, 97, 115, 101>> (* use case *) }, q) -> "usage"
               [] AnyIn({ <<101, 120, 112, 108, 97, 105, 110>> (* explain *), <<101, 120, 112, 108, 97, 105, 110, 32, 119, 104, 121>> (* explain why *), <<101, 120, 112, 108, 97, 105, 110, 32, 104, 111, 119>> (* explain how *) }, q) -> "explanation"
               [] OTHER -> "general"

\* the fields of the analysis the rewrite reads
_analyze_query(query_) ==
    LET lang   == _detect_language(query_)
        tokens == _tokenize(query_, lang)
    IN  [language         |-> lang,
         key_terms        |-> _extract_key_terms_from_tokens(tokens, lang),
         query_type       |-> _classify_query_type(query_, lang),
         complexity       |-> _assess_query_complexity(query_),
         potential_issues |-> _identify_potential_issues(query_, tokens)]

_select_rewrite_strategy(analysis) ==
    IF "ambiguous" \in analysis.potential_issues THEN "clarify"
    ELSE IF "vague" \in analysis.potential_issues THEN "multi_perspective"
    ELSE IF analysis.complexity = "high"
            /\ analysis.query_type \in {"comparison", "explanation", "general"} THEN "simplify"
    ELSE IF analysis.complexity = "low" /\ analysis.query_type \in {"definition", "fact"}
         THEN "expand"
    ELSE "paraphrase"

\* a candidate rewrite
Candidate(text, strategy) == [query |-> text, strategy |-> strategy]

\* key_terms[0] if key_terms else fallback
FirstTermOr(analysis, fallback) ==
    IF analysis.key_terms # <<>> THEN analysis.key_terms[1] ELSE fallback

_expand_query(query_, analysis) ==
    LET base == FirstTermOr(analysis, query_)
    IN  << Candidate(base \o <<32, 30340, 23450, 20041, 21644, 35814, 32454, 35299, 37322>> (*  的定义和详细解释 *), "expand"),
           Candidate(base \o <<32, 30340, 24212, 29992, 22330, 26223, 21644, 31034, 20363>> (*  的应用场景和示例 *), "expand") >>
        \o (IF analysis.language = "en"
            THEN << Candidate(<<68, 101, 102, 105, 110, 105, 116, 105, 111, 110, 32, 97, 110, 100, 32, 100, 101, 116, 97, 105, 108, 101, 100, 32, 101, 120, 112, 108, 97, 110, 97, 116, 105, 111, 110, 32, 111, 102, 32>> (* Definition and detailed explanation of  *) \o base, "expand"),
                    Candidate(<<80, 114, 97, 99, 116, 105, 99, 97, 108, 32, 101, 120, 97, 109, 112, 108, 101, 115, 32, 97, 110, 100, 32, 117, 115, 101, 45, 99, 97, 115, 101, 115, 32, 102, 111, 114, 32>> (* Practical examples and use-cases for  *) \o base, "expand") >>
            ELSE <<>>)

_create_simple_version(query_, key_terms, lang) ==
    LET primary == IF key_terms # <<>> THEN key_terms[1] ELSE query_
        qtype   == _classify_query_type(query_, lang)
    IN  CASE qtype = "definition" -> primary \o <<32, 23450, 20041>> (*  定义 *)
          [] qtype = "synonym"    -> primary \o <<32, 36817, 20041, 35789>> (*  近义词 *)
          [] qtype = "example"    -> primary \o <<32, 20363, 23376>> (*  例子 *)
          [] qtype = "usage"      -> primary \o <<32, 29992, 27861>> (*  用法 *)
          [] qtype = "comparison" /\ Len(key_terms) > 1
                                  -> key_terms[1] \o <<32, 23545, 27604, 32>> (*  对比  *) \o key_terms[2]
          [] OTHER                -> primary

_simplify_query(query_, analysis) ==
    LET key_terms == analysis.key_terms
    IN  (IF Len(key_terms) >= 2
         THEN << Candidate(key_terms[1] \o <<32, 21644, 32>> (*  和  *) \o key_terms[2] \o <<32, 30340, 21306, 21035>> (*  的区别 *), "simplify") >>
         ELSE <<>>)
        \o (IF \/ Contains(<<26159, 20160, 20040>> (* 是什么 *), query_)
               \/ Contains(<<20160, 20040, 26159>> (* 什么是 *), query_)
               \/ (analysis.language = "en" /\ Contains(<<119, 104, 97, 116>> (* what *), lower(query_)))
            THEN << Candidate(FirstTermOr(analysis, query_) \o <<32, 30340, 23450, 20041>> (*  的定义 *), "simplify") >>
            ELSE <<>>)
        \o << Candidate(_create_simple_version(query_, key_terms, analysis.language), "simplify") >>

_paraphrase_query(query_, analysis) ==
    LET main == FirstTermOr(analysis, query_)
    IN  << Candidate(<<35831, 35299, 37322>> (* 请解释 *) \o main, "paraphrase"),
           Candidate(<<20160, 20040, 26159>> (* 什么是 *) \o main, "paraphrase"),
           Candidate(<<33021, 19981, 33021, 20171, 32461, 19968, 19979>> (* 能不能介绍一下 *) \o main, "paraphrase"),
           Candidate(main \o <<26159, 20160, 20040, 24847, 24605>> (* 是什么意思 *), "paraphrase"),
           Candidate(<<22914, 20309, 29702, 35299>> (* 如何理解 *) \o main, "paraphrase"),
           Candidate(<<35831, 35828, 26126>> (* 请说明 *) \o main, "paraphrase"),
           Candidate(main \o <<30340, 23450, 20041, 26159, 20160, 20040>> (* 的定义是什么 *), "paraphrase") >>
        \o (IF analysis.language = "en"
            THEN << Candidate(<<69, 120, 112, 108, 97, 105, 110, 32>> (* Explain  *) \o main, "paraphrase"),
                    Candidate(<<87, 104, 97, 116, 32, 105, 115, 32>> (* What is  *) \o main \o <<63>> (* ? *), "paraphrase"),
                    Candidate(<<72, 111, 119, 32, 116, 111, 32, 117, 110, 100, 101, 114, 115, 116, 97, 110, 100, 32>> (* How to understand  *) \o main \o <<63>> (* ? *), "paraphrase"),
                    Candidate(<<68, 101, 102, 105, 110, 105, 116, 105, 111, 110, 32, 111, 102, 32>> (* Definition of  *) \o main, "paraphrase") >>
            ELSE <<>>)
        \o (IF AnyIn({ <<29992, 27861>> (* 用法 *), <<24590, 20040, 29992>> (* 怎么用 *), <<104, 111, 119, 32, 116, 111>> (* how to *), <<117, 115, 101>> (* use *) }, query_)
            THEN << Candidate(main \o <<32, 30340, 20351, 29992, 26041, 27861, 21644, 27880, 24847, 20107, 39033>> (*  的使用方法和注意事项 *), "paraphrase") >>
            ELSE <<>>)

_clarify_query(query_, analysis) ==
    LET key_terms == analysis.key_terms
    IN  (IF Len(key_terms) >= 2
         THEN << Candidate(query_ \o <<32, 8212, 32, 35831, 20855, 20307, 35828, 26126, 24744, 26159, 20851, 24515>> (*  — 请具体说明您是关心 *) \o key_terms[1] \o <<36824, 26159>> (* 还是 *)
                               \o key_terms[2] \o <<63>> (* ? *), "clarify"),
                 Candidate(<<20851, 20110>> (* 关于 *) \o key_terms[1] \o <<21644>> (* 和 *) \o key_terms[2]
                               \o <<30340, 20851, 31995, 65292, 24744, 24819, 35201, 27604, 36739, 36824, 26159, 20102, 35299, 21508, 33258, 23450, 20041, 63>> (* 的关系，您想要比较还是了解各自定义? *), "clarify") >>
         ELSE <<>>)
        \o << Candidate(query_ \o <<32, 30340, 20855, 20307, 21547, 20041, 21644, 24212, 29992, 26159, 20160, 20040, 63>> (*  的具体含义和应用是什么? *), "clarify") >>

_multi_perspective_query(query_, analysis) ==
    LET main == FirstTermOr(analysis, <<30456, 20851, 20869, 23481>> (* 相关内容 *))
    IN  << Candidate(main \o <<32, 30340, 22522, 26412, 23450, 20041, 21644, 27010, 24565>> (*  的基本定义和概念 *), "multi_perspective"),
           Candidate(main \o <<32, 30340, 20027, 35201, 29305, 28857, 21644, 29305, 24449>> (*  的主要特点和特征 *), "multi_perspective"),
           Candidate(main \o <<32, 30340, 24120, 35265, 29992, 27861, 21644, 20363, 23376>> (*  的常见用法和例子 *), "multi_perspective"),
           Candidate(main \o <<32, 30340, 30456, 20851, 26415, 35821, 21644, 27010, 24565>> (*  的相关术语和概念 *), "multi_perspective"),
           Candidate(main \o <<32, 30340, 23398, 20064, 35201, 28857, 21644, 27880, 24847, 20107, 39033>> (*  的学习要点和注意事项 *), "multi_perspective") >>

\* getattr(self, f"_{strategy}_query", None), _paraphrase_query when there is none
_rewrite_query(original_query, analysis, strategy) ==
    CASE strategy = "expand"            -> _expand_query(original_query, analysis)
      [] strategy = "simplify"          -> _simplify_query(original_query, analysis)
      [] strategy = "clarify"           -> _clarify_query(original_query, analysis)
      [] strategy = "multi_perspective" -> _multi_perspective_query(original_query, analysis)
      [] OTHER                          -> _paraphrase_query(original_query, analysis)

\* the score of a rewrite, in tenths
_simple_score(q, analysis) ==
      Cardinality({n \in 1..Len(analysis.key_terms) :
                      Contains(lower(analysis.key_terms[n]), lower(q))}) * 10
    - (IF Len(split(q)) > 20 THEN 5 ELSE 0)
    + (IF analysis.query_type = "comparison" /\ Contains(<<21306, 21035>> (* 区别 *), q) THEN 2 ELSE 0)

\* the text as it stands, its whitespace untouched
whitespace_kept(q) == q

\* re.sub(r"\s+", " ", q): one space for every run of whitespace
whitespace_collapsed(q) ==
    LET last == SortedSeq({n \in 1..Len(q) :
                    q[n] \notin Whitespace \/ n = Len(q) \/ q[n + 1] \notin Whitespace})
    IN  [n \in 1..Len(last) |-> IF q[last[n]] \in Whitespace THEN 32 ELSE q[last[n]]]

RECURSIVE Deduplicated(_, _, _)
\* the loop over the candidates: the entries kept of the first n of them
Deduplicated(candidates, analysis, n) ==
    IF n = 0 THEN <<>>
    ELSE LET kept_  == Deduplicated(candidates, analysis, n - 1)
             q      == strip(candidates[n].query)
             norm   == whitespace_collapsed(q)
             seen   == {whitespace_collapsed(strip(kept_[m].query)) : m \in 1..Len(kept_)}
         IN  IF norm \in seen THEN kept_
             ELSE Append(kept_, [query    |-> candidates[n].query,
                                 strategy |-> candidates[n].strategy,
                                 score    |-> _simple_score(q, analysis)])

\* the sort key (-x["score"], len(x["query"]) if self.prefer_short else 0):
\* x sorts strictly before y
SortsBefore(self_, x, y) ==
    \/ x.score > y.score
    \/ x.score = y.score /\ self_.prefer_short /\ Len(x.query) < Len(y.query)

RECURSIVE InsertByKey(_, _, _)
InsertByKey(self_, sorted, x) ==
    IF sorted = <<>> THEN <<x>>
    ELSE IF SortsBefore(self_, x, Head(sorted)) THEN <<x>> \o sorted
    ELSE <<Head(sorted)>> \o InsertByKey(self_, Tail(sorted), x)

RECURSIVE SortByKey(_, _)
\* scored.sort(key=...), a stable sort
SortByKey(self_, scored) ==
    IF scored = <<>> THEN <<>>
    ELSE InsertByKey(self_, SortByKey(self_, SubSeq(scored, 1, Len(scored) - 1)),
                     scored[Len(scored)])

_score_and_dedup(self_, candidates, analysis) ==
    SortByKey(self_, Deduplicated(candidates, analysis, Len(candidates)))

\* strategy_used of an answer that used none: None
NoStrategy == "None"

\* the fields of the answer but model_prompts, which is made from the others
requery(self_, original_query, rewrite_strategy) ==
    LET stripped == strip(original_query)
    IN  IF stripped = <<>>
        THEN [original_query |-> stripped, analysis |-> <<>>, strategy_used |-> NoStrategy,
              rewrites |-> <<>>]
        ELSE LET analysis == _analyze_query(stripped)
                 strategy == IF rewrite_strategy = "auto"
                             THEN _select_rewrite_strategy(analysis) ELSE rewrite_strategy
             IN  [original_query |-> stripped,
                  analysis       |-> analysis,
                  strategy_used  |-> strategy,
                  rewrites       |-> Take(_score_and_dedup(self_,
                                             _rewrite_query(stripped, analysis, strategy),
                                             analysis),
                                          self_.max_rewrites)]

-----------------------------------------------------------------------------
(* Calls of requery, and of _score_and_dedup on candidates of its own *)

\* the queries: empty, blank, one word, a vague question, a definition, a
\* Chinese definition, an ambiguous one, a long one, and one on usage
RewriteQueries ==
    { <<>>, <<32, 9, 32>> (*  \t  *), <<97, 112, 112, 108, 101>> (* apple *), <<32, 119, 104, 97, 116, 32, 105, 115, 32, 97, 112, 112, 108, 101>> (*  what is apple *), <<100, 101, 102, 105, 110, 105, 116, 105, 111, 110, 32, 111, 102, 32, 97, 112, 112, 108, 101>> (* definition of apple *), <<33529, 26524, 26159, 20160, 20040>> (* 苹果是什么 *),
      <<97, 112, 112, 108, 101, 32, 21644, 32, 112, 101, 97, 114, 32, 21644, 32, 112, 108, 117, 109>> (* apple 和 pear 和 plum *),
      <<112, 108, 101, 97, 115, 101, 32, 101, 120, 112, 108, 97, 105, 110, 32, 97, 112, 112, 108, 101, 32, 112, 101, 97, 114, 32, 112, 108, 117, 109, 32, 102, 105, 103, 32, 107, 105, 119, 105, 32, 108, 105, 109, 101, 32, 100, 97, 116, 101, 32, 110, 117, 116>> (* please explain apple pear plum fig kiwi lime date nut *),
      <<100, 105, 102, 102, 101, 114, 101, 110, 99, 101, 32, 111, 102, 32, 97, 112, 112, 108, 101, 32, 118, 115, 32, 112, 101, 97, 114>> (* difference of apple vs pear *) }

\* the rewrite_strategy argument: the default, a strategy, and a name no
\* method stands for
RewriteStrategies == {"auto", "expand", "summarize"}

\* the strategy objects: max_rewrites and prefer_short
Rewriters == [max_rewrites : {0, 2, 10}, prefer_short : BOOLEAN]

\* candidate lists with texts that differ in their whitespace only
CandidateLists ==
    { <<>>,
      << Candidate(<<97, 112, 112, 108, 101, 32, 23450, 20041>> (* apple 定义 *), "simplify"), Candidate(<<97, 112, 112, 108, 101, 32, 32, 23450, 20041>> (* apple  定义 *), "simplify"),
         Candidate(<<112, 101, 97, 114>> (* pear *), "simplify") >>,
      << Candidate(<<32, 97, 112, 112, 108, 101, 32, 23450, 20041>> (*  apple 定义 *), "expand"), Candidate(<<112, 101, 97, 114>> (* pear *), "expand"),
         Candidate(<<97, 112, 112, 108, 101, 32, 23450, 20041>> (* apple 定义 *), "expand") >>,
      << Candidate(<<112, 101, 97, 114>> (* pear *), "clarify"), Candidate(<<97, 112, 112, 108, 101, 9, 23450, 20041, 32>> (* apple\t定义  *), "clarify"),
         Candidate(<<97, 112, 112, 108, 101>> (* apple *), "clarify"), Candidate(<<97, 112, 112, 108, 101, 32, 9, 32, 23450, 20041>> (* apple \t 定义 *), "clarify"),
         Candidate(<<97, 112, 112, 108, 101, 32, 21644, 32, 112, 101, 97, 114, 32, 30340, 21306, 21035>> (* apple 和 pear 的区别 *), "clarify") >> }

InitRewrite ==
    /\ RetrieverIdle
    /\ query = <<>>
    /\ keyword_intent = None
    /\ semantic_intent = None
    /\ pattern_intent = None
    /\ recognized = None
    /\ intent_recognizer = None
    /\ served = <<>>
    /\ validated = None
    /\ lexical = None
    /\ ListeningIdle
    /\ WrapperIdle
    /\ \/ /\ rewriter \in {[self |-> r, original_query |-> q, rewrite_strategy |-> s,
                            result |-> None] :
                               r \in Rewriters, q \in RewriteQueries, s \in RewriteStrategies}
          /\ pc = "requery"
       \/ /\ rewriter \in {[self |-> r, candidates |-> c, analysis |-> _analyze_query(q),
                            result |-> None] :
                               r \in Rewriters, c \in CandidateLists,
                               q \in { <<97, 112, 112, 108, 101>> (* apple *), <<97, 112, 112, 108, 101, 32, 21644, 32, 112, 101, 97, 114, 32, 30340, 21306, 21035>> (* apple 和 pear 的区别 *) }}
          /\ pc = "score_and_dedup"

\* strategy.requery(original_query, rewrite_strategy=...)
Requery ==
    /\ pc = "requery"
    /\ rewriter' = [rewriter EXCEPT
                       !.result = requery(rewriter.self, rewriter.original_query,
                                          rewriter.rewrite_strategy)]
    /\ pc' = "requery_done"
    /\ UNCHANGED <<intent_recognizer, served, validated, lexical, listening, wrapper,
                   retriever, recognizer>>

\* strategy._score_and_dedup(candidates, analysis)
ScoreAndDedup ==
    /\ pc = "score_and_dedup"
    /\ rewriter' = [rewriter EXCEPT
                       !.result = _score_and_dedup(rewriter.self, rewriter.candidates,
                                                   rewriter.analysis)]
    /\ pc' = "score_and_dedup_done"
    /\ UNCHANGED <<intent_recognizer, served, validated, lexical, listening, wrapper,
                   retriever, recognizer>>

NextRewrite == Requery \/ ScoreAndDedup

SpecRewrite == InitRewrite /\ [][NextRewrite]_vars

-----------------------------------------------------------------------------
(* Properties of recognize_intent *)

\* the call took the combined path
CombinedPath == pc = "recognized" /\ query # <<>> /\ ~IsFastPath(keyword_intent)

\* C7: for every query, empty, blank, Chinese, English or mixed,
\* recognize_intent returns a confidence c with 0 <= c <= 1, on the fast path
\* and on the combined path
C7_ConfidenceInUnitInterval ==
    pc = "recognized" =>
        /\ recognized.confidence.den > 0
        /\ 0 <= recognized.confidence.num
        /\ recognized.confidence.num <= recognized.confidence.den

\* a call on the combined path whose confidence sums the shares of the
\* semantic and of the pattern signal for one intent
C7_Witness ==
    /\ CombinedPath
    /\ semantic_intent.confidence.num > 0
    /\ semantic_intent.type = pattern_intent.type
    /\ recognized.type = pattern_intent.type
    /\ RatLess(RatMul(Rat(4, 10), semantic_intent.confidence), recognized.confidence)

\* C8: for every query that is not empty recognize_intent returns general or
\* one of the labels of the intent tables; for the empty query it returns
\* general with confidence 0 and an empty target
C8_LabelInClosedSet ==
    pc = "recognized" =>
        /\ recognized.type \in {"general"} \cup Range(IntentLabels)
        /\ query = <<>> =>
              /\ recognized.type = "general"
              /\ recognized.confidence = Rat(0, 1)
              /\ recognized.target_word = <<>>

C8_Witness ==
    /\ pc = "recognized"
    /\ query = <<>>
    /\ recognized.type = "general"
    /\ recognized.target_word = <<>>

\* C9: the query "什么是 sensible" yields the target "sensible" and the intent
\* definition
C9_WhatIsSensible ==
    (pc = "recognized" /\ query = <<20160, 20040, 26159, 32, 115, 101, 110, 115, 105, 98, 108, 101>> (* 什么是 sensible *)) =>
        /\ recognized.target_word = <<115, 101, 110, 115, 105, 98, 108, 101>> (* sensible *)
        /\ recognized.type = "definition"

\* the quoted or bracketed spans of a query that pass validation
ValidSpans(query_) ==
    {c \in {strip(QuotedSpan(query_, quoted_patterns[p])) : p \in 1..Len(quoted_patterns)} :
        c # <<>> /\ _is_valid_target(c, query_)}

\* C10: whenever the query holds a quoted or bracketed span that passes
\* validation, the target returned is that span, letter for letter
C10_QuotedSpanVerbatim ==
    (pc = "recognized" /\ ValidSpans(query) # {}) =>
        recognized.target_word \in ValidSpans(query)

-----------------------------------------------------------------------------
(* Properties of the effective weights *)

\* the names a strategy can be requested under
StrategyNames == Strategies \cup {"exact_match", "metadata_filter"}

\* the weight the fusion applied to strategy s, read back from the
\* strategy_scores of a fused document that s returned
EffectiveWeight(doc, s) ==
    (doc.strategy_scores[s] * (RankIn(all_results[s], doc.id) + k)) \div Scale

\* the effective weight the statement gives, in tenths of the base weight
StatedTenths(strategy, type) ==
    IF type = "synonym" /\ strategy \in {"exact_match", "intention_aware"} THEN 15
    ELSE IF type = "synonym" /\ strategy = "semantic" THEN 8
    ELSE 10

\* C11: for the intent synonym and a positive base weight, the effective
\* weight of intention_aware (and exact_match) is 1.5 times the base weight and
\* above it, that of semantic 0.8 times the base weight and below it; for every
\* other intent and every other strategy it is the base weight.  Stated of the
\* function and of the weights the fusion applied to the documents it fused
C11_SynonymWeights ==
    /\ \A s \in StrategyNames : \A type \in {"general"} \cup Range(IntentLabels) :
          \A base \in WeightValues :
             LET adjusted == _adjust_strategy_weight_by_intent(
                                s, [type |-> type, target_word |-> "sensible"], base)
             IN  /\ 10 * adjusted = StatedTenths(s, type) * base
                 /\ StatedTenths(s, type) = 15 => adjusted > base
                 /\ StatedTenths(s, type) = 8 => adjusted < base
                 /\ StatedTenths(s, type) = 10 => adjusted = base
    /\ pc = "fused" =>
          \A i \in 1..Len(fused_results) : \A s \in Returning(fused_results[i].id) :
             LET base      == retrieval_strategies[s].weight
                 effective == EffectiveWeight(fused_results[i], s)
                 tenths    == StatedTenths(s, intent.type)
             IN  /\ 10 * effective = tenths * base
                 /\ tenths = 15 => effective > base
                 /\ tenths = 8 => effective < base
                 /\ tenths = 10 => effective = base

\* a synonym query fused a document that the semantic and the intention_aware
\* strategy both returned, and one that keyword_bm25 returned
C11_Witness ==
    /\ pc = "fused"
    /\ intent.type = "synonym"
    /\ \E i \in 1..Len(fused_results) :
          {"semantic", "intention_aware"} \subseteq Returning(fused_results[i].id)
    /\ \E i \in 1..Len(fused_results) :
          "keyword_bm25" \in Returning(fused_results[i].id)

-----------------------------------------------------------------------------
(* Properties of the query argument of multi_way_retrieve *)

\* C12: for an empty or blank query the retrieval short-circuits: the call
\* returns the empty list and invokes neither the embedding model nor a
\* strategy, so it goes from its entry to its return and stores no results
C12_EmptyQueryShortCircuits ==
    strip(query) = <<>> =>
        /\ pc \in {"encode", "returned"}
        /\ all_results = [s \in {} |-> <<>>]
        /\ \A n \in 1..Len(returns) : returns[n] = [raised |-> FALSE, value |-> <<>>]

-----------------------------------------------------------------------------
(* Properties of a strategy call that does not return *)

\* C14: a strategy call that does not return in time counts as an empty
\* result and does not cancel the other strategies: multi_way_retrieve still
\* returns in the end, with the fusion of what the other strategies returned,
\* and the fusion never starts before every requested strategy has completed,
\* failed or timed out
C14_HangingStrategyTimesOut ==
    /\ [](pc \in {"fusion", "fused", "reranked", "returned"} =>
            /\ DOMAIN all_results = RequestedKnown
            /\ \A s \in RequestedKnown : Hangs(s) => all_results[s] = <<>>)
    /\ [](pc = "execute" => <>(pc = "returned"))

-----------------------------------------------------------------------------
(* Properties of a session *)

\* C15: a call retains nothing for the calls after it: multi_way_retrieve and
\* recognize_intent leave the weights and top_k of retrieval_strategies and the
\* keyword and example tables as they were, so that a call gives the same
\* outcome whichever calls were answered before it
C15_NoCrossQueryState ==
    /\ [][/\ retrieval_strategies' = retrieval_strategies
          /\ intent_recognizer' = intent_recognizer]_vars
    /\ [](\A m, n \in 1..Len(served) :
             served[m].call = served[n].call => served[m].outcome = served[n].outcome)

\* a retrieval for a synonym query returned documents, another call was
\* answered, and the first call was made again; likewise for a recognition
C15_Witness ==
    /\ \E m, n \in 1..Len(served) :
          /\ m + 1 < n
          /\ served[m].call = served[n].call
          /\ served[m + 1].call # served[m].call
          /\ served[m].call.kind = "multi_way_retrieve"
          /\ served[m].call.intent.type = "synonym"
          /\ served[m + 1].call.kind = "multi_way_retrieve"
          /\ ~served[n].outcome.raised
          /\ Len(served[n].outcome.value) >= 2

-----------------------------------------------------------------------------
(* Properties of the target and of the method of recognize_intent *)

\* C13: every target recognize_intent returns that is not empty occurs in the
\* original query as a contiguous substring, letter case ignored, on every
\* path of the extraction, its last fallback included
C13_TargetIsSubstringOfQuery ==
    (pc = "recognized" /\ recognized.target_word # <<>>) =>
        Contains(lower(recognized.target_word), lower(query))

\* C16: every result of recognize_intent carries a method, one of keyword,
\* semantic, pattern and combined: the result for the empty query, that of the
\* fast path and that of the combined path
C16_ResultCarriesMethod ==
    pc = "recognized" =>
        /\ "method" \in DOMAIN recognized
        /\ recognized.method \in {"keyword", "semantic", "pattern", "combined"}

\* C17: when the confidence of the keyword signal exceeds 0.8, recognize_intent
\* returns the intent and the confidence of the keyword signal with the method
\* keyword, the semantic and the pattern signal not being consulted, and its
\* target is what the extraction gives on the query in its original case, or,
\* only when that is empty, the target of the keyword signal
C17_FastPath ==
    (pc = "recognized" /\ query # <<>>
        /\ RatLess(Rat(8, 10), keyword_intent.confidence)) =>
        /\ recognized.type = keyword_intent.type
        /\ recognized.confidence = keyword_intent.confidence
        /\ recognized.method = "keyword"
        /\ semantic_intent = None
        /\ pattern_intent = None
        /\ recognized.target_word =
              IF _extract_target_word(query) # <<>> THEN _extract_target_word(query)
              ELSE keyword_intent.target_word

\* a call that took the fast path and returned a target in the case of the
\* query, where the keyword signal had proposed it in lower case
C17_Witness ==
    /\ pc = "recognized"
    /\ query # <<>>
    /\ RatLess(Rat(8, 10), keyword_intent.confidence)
    /\ recognized.target_word # <<>>
    /\ recognized.target_word # keyword_intent.target_word
    /\ lower(recognized.target_word) = keyword_intent.target_word

\* the sum for one intent over the three signals of confidence times method
\* weight, the weights being 0.4 for keyword, 0.4 for semantic, 0.2 for pattern
WeightedSum(type) ==
    LET Share(result, weight) ==
            IF result.type = type THEN RatMul(result.confidence, weight) ELSE Rat(0, 1)
    IN  RatAdd(Share(keyword_intent, Rat(4, 10)),
               RatAdd(Share(semantic_intent, Rat(4, 10)), Share(pattern_intent, Rat(2, 10))))

\* C18: on the combined path the intent returned is one whose weighted sum no
\* other intent exceeds, the confidence returned is that sum, and the label is
\* general when no signal gives a specific intent a positive score
C18_WeightedVote ==
    CombinedPath =>
        /\ \A type \in {"general"} \cup Range(IntentLabels) :
              ~RatLess(WeightedSum(recognized.type), WeightedSum(type))
        /\ recognized.confidence = WeightedSum(recognized.type)
        /\ (\A type \in Range(IntentLabels) : WeightedSum(type) = Rat(0, 1)) =>
              recognized.type = "general"

\* the semantic and the pattern signal stood for different intents, both with
\* a positive confidence, and the vote decided between them
C18_Witness ==
    /\ CombinedPath
    /\ semantic_intent.type # pattern_intent.type
    /\ semantic_intent.confidence.num > 0
    /\ pattern_intent.type # "general"
    /\ recognized.type \in {semantic_intent.type, pattern_intent.type}

-----------------------------------------------------------------------------
(* Properties of _combine_intent_results *)

\* the targets proposed, in the order of the results, the empty ones left out
ProposedTargets ==
    LET NotEmpty(t) == t # <<>>
    IN  SelectSeq([n \in 1..Len(intent_results) |-> intent_results[n].target_word], NotEmpty)

\* how often a list holds a value
Occurrences(items, t) == Cardinality({n \in 1..Len(items) : items[n] = t})

\* the value a list holds most often, the first of the list among equals
FirstMostProposed(items) ==
    items[MinOf({n \in 1..Len(items) :
                    \A m \in 1..Len(items) :
                        Occurrences(items, items[m]) <= Occurrences(items, items[n])})]

-----------------------------------------------------------------------------
(* Properties of _is_valid_target *)

\* the candidate is not empty, is not a single character other than an upper
\* case letter, holds no stop word and has at most 3 words
PassesRejections(c) ==
    /\ c # <<>>
    /\ ~(Len(c) = 1 /\ c[1] \notin 65..90)
    /\ \A sw \in stop_words : ~Contains(sw, lower(c))
    /\ Len(split(c)) <= 3

\* a candidate with an ideograph that is 2 characters long or longer, or one
\* without that has 2 letters of the Latin alphabet or more
HasShapeOfTerm(c) ==
    IF \E n \in 1..Len(c) : InClass(CJK, c[n]) THEN Len(c) >= 2
    ELSE Cardinality({n \in 1..Len(c) : c[n] \in (65..90) \cup (97..122)}) >= 2

\* the candidate stands in the query and holds no mark of a question
StandsInQuery(c, query_) ==
    /\ query_ # <<>>
    /\ Contains(c, query_)
    /\ \A mark \in { <<20160, 20040>> (* 什么 *), <<26377, 20160, 20040>> (* 有什么 *), <<26377, 27809, 26377>> (* 有没有 *), <<63>> (* ? *), <<65311>> (* ？ *) } : ~Contains(mark, c)

\* C20 as stated: _is_valid_target accepts a candidate exactly when it is not
\* empty, is not a single character that is not upper case, holds no stop
\* word, has at most 3 words, and is a candidate with ideographs of length 2
\* or more or a Latin one with 2 letters or more; any other candidate, a single
\* upper case letter or a token of digits for one, is rejected whether or not
\* it stands in the query
C20_AcceptsExactlyTerms ==
    pc = "validated" =>
        validated.result = (/\ PassesRejections(strip(validated.candidate))
                            /\ HasShapeOfTerm(strip(validated.candidate)))

\* C20 as the code has it: a candidate that passes the rejections is accepted
\* when it has the shape of a term or when it stands in the query and holds no
\* mark of a question, so that a single upper case letter or a token of digits
\* is accepted when the query holds it and rejected when it does not
C20_AcceptsTermsAndQuotations ==
    pc = "validated" =>
        validated.result = (/\ PassesRejections(strip(validated.candidate))
                            /\ \/ StandsInQuery(strip(validated.candidate), query)
                               \/ HasShapeOfTerm(strip(validated.candidate)))

\* a single upper case letter or a token of digits was accepted because the
\* query holds it
C20_Witness ==
    /\ pc = "validated"
    /\ validated.result = TRUE
    /\ ~HasShapeOfTerm(strip(validated.candidate))
    /\ StandsInQuery(strip(validated.candidate), query)


-----------------------------------------------------------------------------
(* Claims on the fine rerank and on what multi_way_retrieve returns *)

\* the adjusted score _detailed_rerank would give a fused document
AdjustedScore(doc, intent_) == doc.fusion_score + RerankScore(doc, intent_) * Scale

\* C21: multi_way_retrieve with top_k = K returns at most K candidates, all
\* of them among the first 3K entries of the fused list and in non-increasing
\* order of adjusted score; no entry at fused position 3K or later is returned
C21_ReturnsTopOfRerankWindow ==
    (pc = "returned" /\ ~LastReturn.raised) =>
        LET out == LastReturn.value
        IN  /\ Len(out) <= top_k
            /\ IdsOf(out) \subseteq IdsOf(Take(fused_results, 3 * top_k))
            /\ \A n \in 1..(Len(out) - 1) : out[n].fusion_score >= out[n + 1].fusion_score
            /\ \A n \in 1..Len(out) :
                  \E m \in 1..Len(fused_results) :
                      /\ m <= 3 * top_k
                      /\ fused_results[m].id = out[n].id
                      /\ out[n].fusion_score = AdjustedScore(fused_results[m], intent)
            /\ \A m \in 1..Len(fused_results) :
                  m > 3 * top_k => fused_results[m].id \notin IdsOf(out)

\* a call returned while the fused list was longer than 3K, and an entry
\* behind the cut would have outscored the candidate that was returned first
C21_Witness ==
    /\ pc = "returned"
    /\ ~LastReturn.raised
    /\ Len(fused_results) > 3 * top_k
    /\ LastReturn.value # <<>>
    /\ \E m \in 1..Len(fused_results) :
          /\ m > 3 * top_k
          /\ AdjustedScore(fused_results[m], intent) > LastReturn.value[1].fusion_score

\* the fused entry a reranked candidate was made from
FusedOf(doc) == CHOOSE f \in Range(fused_results) : f.id = doc.id

\* the terms of the adjustment the claim names, in hundredths
TargetBonus(doc) ==
    IF intent.target_word # "" /\ Lower(doc.word) = Lower(intent.target_word) THEN 30 ELSE 0

ChunkTypeBonus(doc) ==
    IF \/ intent.type = "synonym" /\ doc.chunk_type = "semantic_network"
       \/ intent.type = "definition" /\ doc.chunk_type = "definition"
       \/ intent.type = "example" /\ doc.chunk_type = "examples"
    THEN 40 ELSE 0

LengthTerm(doc) ==
    IF doc.content.length >= 50 /\ doc.content.length <= 500 THEN 10
    ELSE IF doc.content.length > 1000 THEN 0 - 10 ELSE 0

\* what the rerank added to a candidate beyond the three other terms
DensityBonus(doc) ==
    doc.fusion_score - FusedOf(doc).fusion_score
        - (TargetBonus(doc) + ChunkTypeBonus(doc) + LengthTerm(doc)) * Scale

\* C22 as stated: every reranked candidate's adjusted score is its fused
\* score plus 0.3 for a target match, 0.4 for the expected chunk type, a
\* length term of +0.1 / -0.1 / 0, and a density bonus between 0 and 0.2
C22_DensityBonusAtMostTwoTenths ==
    pc = "reranked" =>
        \A n \in 1..Len(reranked_results) :
            /\ DensityBonus(reranked_results[n]) >= 0
            /\ DensityBonus(reranked_results[n]) <= 20 * Scale

\* C22 (amended): the same sum, where the density bonus is, for the synonym
\* intent on content holding the marker, 0.2 plus 0.05 for every ":" up to
\* 0.1, and 0 otherwise: between 0 and 0.3
C22_DensityBonusCountsSynonyms ==
    pc = "reranked" =>
        \A n \in 1..Len(reranked_results) :
            LET doc == reranked_results[n]
            IN  DensityBonus(doc) =
                    (IF intent.type = "synonym" /\ doc.content.marker
                     THEN 20 + (IF doc.content.colons >= 2 THEN 10 ELSE doc.content.colons * 5)
                     ELSE 0) * Scale

\* a candidate was reranked for the synonym intent whose content holds the
\* marker and three ":": target, chunk type, content and length all count
C22_Witness ==
    /\ pc = "reranked"
    /\ \E n \in 1..Len(reranked_results) :
          LET doc == reranked_results[n]
          IN  /\ TargetBonus(doc) = 30
              /\ ChunkTypeBonus(doc) = 40
              /\ LengthTerm(doc) = 10
              /\ doc.content.marker
              /\ doc.content.colons = 3
              /\ DensityBonus(doc) = 30 * Scale

-----------------------------------------------------------------------------
(* Claims on the three strategies *)

\* the hits the index answers the semantic strategy with
SemanticHits == Take(env.semantic_hits, retrieval_strategies["semantic"].top_k)

\* C23: when the embedding provider and the index answer normally with
\* n >= 1 hits, the semantic strategy run by multi_way_retrieve contributes
\* exactly those n hits, in index order, each with the intent-adjusted score
\* min(1.0, similarity + 0.3 + 0.4 + 0.2 for the cues that apply)
C23_SemanticContributesItsHits ==
    (/\ "semantic" \in DOMAIN all_results
     /\ "semantic" \notin env.failing
     /\ SemanticHits # <<>>
     /\ \E n \in 1..Len(query) : query[n] \notin {9, 32}) =>
        /\ Len(all_results["semantic"]) = Len(SemanticHits)
        /\ \A n \in 1..Len(SemanticHits) :
              LET doc == all_results["semantic"][n]
              IN  /\ doc.id = SemanticHits[n]
                  /\ doc.intention_adjusted_score
                        = _adjust_score_by_intent(doc, intent, Similarity(doc.id))

\* the keywords the claim has the lexical strategy query with
StatedKeywords ==
    IF intent.target_word # "" THEN {intent.target_word}
    ELSE LET extracted == _extract_keywords(lexical.query).docs
         IN  {extracted[n] : n \in 1..Min2(5, Len(extracted))}

\* min(1.0, sum over the query terms of occ / (occ + 1.5)), in ScoreUnit
StatedScore(content) ==
    LET terms == _extract_keywords(lexical.query).docs
        part  == [n \in 1..Len(terms) |->
                     LET occurrences == content.occ[terms[n]]
                     IN  (2 * occurrences * ScoreUnit) \div (2 * occurrences + 3)]
    IN  Min2(ScoreUnit, SumOver(1..Len(terms), part))

RowsOf(chunk_type, word) ==
    {id \in Ids : Corpus[id].chunk_type = chunk_type /\ Corpus[id].word = word}

\* the chunk type the claim ties to an intent type
StatedChunkType ==
    CASE intent.type = "synonym"    -> "semantic_network"
      [] intent.type = "definition" -> "definition"
      [] intent.type = "example"    -> "examples"
      [] OTHER                      -> "none"

\* C25: the intent-specific strategy returns the empty list when the intent
\* has no target term or its type is none of synonym, definition, example;
\* otherwise it issues exactly one filter query, on the chunk type of the
\* intent and the exact target word, every returned candidate has score 1.0
\* and strategy intention_aware, and an index error yields the empty list
C25_IntentSpecificStrategy ==
    "intention_aware" \in DOMAIN all_results =>
        LET docs  == all_results["intention_aware"]
            limit == retrieval_strategies["intention_aware"].top_k
        IN  IF intent.target_word = "" \/ StatedChunkType = "none"
            THEN docs = <<>> /\ intention_filters(intent) = <<>>
            ELSE /\ intention_filters(intent)
                      = <<[chunk_type |-> StatedChunkType, word |-> intent.target_word]>>
                 /\ "intention_aware" \in env.failing => docs = <<>>
                 /\ "intention_aware" \notin env.failing =>
                        /\ IdsOf(docs) \subseteq RowsOf(StatedChunkType, intent.target_word)
                        /\ Len(docs) = Min2(limit, Cardinality(RowsOf(StatedChunkType, intent.target_word)))
                 /\ \A n \in 1..Len(docs) :
                        /\ docs[n].score = 100
                        /\ docs[n].strategy = "intention_aware"

\* the strategy ran for the example intent on "sensible" and returned the
\* four rows of that chunk type and word
C25_Witness ==
    /\ "intention_aware" \in DOMAIN all_results
    /\ intent = [type |-> "example", target_word |-> "sensible"]
    /\ IdList(all_results["intention_aware"]) = <<"c", "g", "h", "i">>


-----------------------------------------------------------------------------
(* Claims on the rewrite strategy *)

\* the rewrites a finished call gave
ReturnedRewrites ==
    IF pc = "requery_done" THEN rewriter.result.rewrites
    ELSE IF pc = "score_and_dedup_done" THEN rewriter.result
    ELSE <<>>

\* two texts are equal once every run of whitespace is one space: the same
\* words, and whitespace at the same ends
EqualButWhitespace(a, b) ==
    /\ split(a) = split(b)
    /\ (a # <<>> /\ a[1] \in Whitespace) <=> (b # <<>> /\ b[1] \in Whitespace)
    /\ (a # <<>> /\ a[Len(a)] \in Whitespace) <=> (b # <<>> /\ b[Len(b)] \in Whitespace)

\* C26: the rewrites returned by requery hold no two entries whose texts are
\* equal after collapsing whitespace, are in non-increasing score order
\* (among equal scores the shorter text first when prefer_short is set) and
\* are at most max_rewrites; for an empty or whitespace-only query the list
\* is empty and no strategy is selected
C26_RewritesDistinctSortedTrimmed ==
    LET r == ReturnedRewrites
    IN  /\ \A n, m \in 1..Len(r) : n # m => ~EqualButWhitespace(r[n].query, r[m].query)
        /\ \A n, m \in 1..Len(r) : n < m =>
              /\ r[n].score >= r[m].score
              /\ (rewriter.self.prefer_short /\ r[n].score = r[m].score)
                    => Len(r[n].query) <= Len(r[m].query)
        /\ pc = "requery_done" =>
              /\ Len(r) <= rewriter.self.max_rewrites
              /\ (\A n \in 1..Len(rewriter.original_query) :
                      rewriter.original_query[n] \in Whitespace)
                    => (r = <<>> /\ rewriter.result.strategy_used = NoStrategy)

\* requery, preferring short texts and returning at most two, answered an
\* ambiguous query that made three clarifications with the two of the best
\* score, the shorter one first though it was made last
C26_Witness ==
    /\ pc = "requery_done"
    /\ rewriter.self = [max_rewrites |-> 2, prefer_short |-> TRUE]
    /\ rewriter.result.strategy_used = "clarify"
    /\ Len(rewriter.result.rewrites) = 2
    /\ rewriter.result.rewrites[1].score = rewriter.result.rewrites[2].score
    /\ Len(rewriter.result.rewrites[1].query) < Len(rewriter.result.rewrites[2].query)


-----------------------------------------------------------------------------
(* Claims on the target term and the keyword signal *)

\* the target term of the extraction cascade is empty or valid for the query
ExtractedTargetValid ==
    LET target == _extract_target_word(query)
    IN  target # <<>> => _is_valid_target(target, query)

\* C27: every non-empty target term that the extraction cascade returns, and
\* hence every one that recognize_intent returns, satisfies _is_valid_target
\* for the query; a returned target holds no interrogative stop word
C27_ReturnedTargetIsValid ==
    /\ ExtractedTargetValid
    /\ (recognized # None /\ recognized.target_word # <<>>) =>
          /\ _is_valid_target(recognized.target_word, query)
          /\ \A sw \in stop_words : ~Contains(sw, lower(recognized.target_word))

\* the sum of the semantic and the pattern signal for an intent, weighted
SumWithoutKeyword(type) ==
    RatAdd(IF semantic_intent.type = type
           THEN RatMul(semantic_intent.confidence, Rat(4, 10)) ELSE Rat(0, 1),
           IF pattern_intent.type = type
           THEN RatMul(pattern_intent.confidence, Rat(2, 10)) ELSE Rat(0, 1))

\* the query holds a keyword of some intent
HoldsKeyword(query_) ==
    \E type \in DOMAIN INTENT_KEYWORDS :
        \E m \in 1..Len(INTENT_KEYWORDS[type]) : Contains(INTENT_KEYWORDS[type][m], query_)

\* C28: the confidence of the keyword signal is exactly 0 or exactly 1, so
\* the combined path of recognize_intent is taken only for queries that hold
\* no keyword of any intent, and there the keyword signal adds 0 to the score
\* of every intent
C28_KeywordConfidenceZeroOrOne ==
    /\ keyword_intent # None => keyword_intent.confidence \in {Rat(0, 1), Rat(1, 1)}
    /\ CombinedPath =>
          /\ ~HoldsKeyword(query)
          /\ ~HoldsKeyword(lower(query))
          /\ keyword_intent.confidence = Rat(0, 1)
          /\ \A n \in 1..Len(recognized.all_scores) :
                recognized.all_scores[n].score
                    = SumWithoutKeyword(recognized.all_scores[n].type)

\* a query without a keyword went the combined path and got its score from
\* the semantic signal, while a query with a keyword went the fast path
C28_Witness ==
    /\ CombinedPath
    /\ keyword_intent.confidence = Rat(0, 1)
    /\ semantic_intent.confidence.num > 0
    /\ recognized.confidence.num > 0

-----------------------------------------------------------------------------
(* backend/routers/listening.py: the playback requests of the users.  A time
   is in seconds, a speed in tenths; an Optional value is a sequence of at
   most one value. *)

\* Optional[...]: None is <<>>
Optional(values) == {<<>>} \cup {<<v>> : v \in values}

mock_audio_library ==
    [audio_001 |-> [id |-> "audio_001", duration |-> 600, difficulty |-> "easy"],
     audio_002 |-> [id |-> "audio_002", duration |-> 720, difficulty |-> "intermediate"],
     audio_003 |-> [id |-> "audio_003", duration |-> 840, difficulty |-> "advanced"]]

\* the users that get_current_user yields
CurrentUsers == [id : {"u1", "u2"}]

\* PlaybackControlRequest: an audio of the library, one that is not there,
\* the empty id and none; no time, the start, and a later time
PlaybackControlRequests ==
    [audio_id : Optional({"audio_001", "audio_003", "audio_404", ""}),
     current_time : Optional({0, 90})]

\* SpeedControlRequest: below the range, its ends, and above it
SpeedControlRequests == [speed : {4, 5, 20, 21}]

\* raise HTTPException(status_code=..., detail=...)
HTTPException(status_code, detail) == [status_code |-> status_code, detail |-> detail]

\* return PlaybackStatus(**state)
PlaybackStatus(state) == [status_code |-> 200, body |-> state]

\* PlaybackStatus()
DefaultPlaybackStatus ==
    [audio_id |-> <<>>, is_playing |-> FALSE, current_time |-> 0, speed |-> 10,
     volume |-> 10, total_duration |-> 0]

\* player_states[user_id] = state
SetItem(states, user_id, state) ==
    [u \in DOMAIN states \cup {user_id} |-> IF u = user_id THEN state ELSE states[u]]

\* what a handler does besides answering
Answer(states, answer) ==
    /\ player_states' = states
    /\ response' = answer
    /\ UNCHANGED <<intent_recognizer, served, validated, lexical, rewriting, wrapper,
                   retriever, recognizer, pc>>

InitListening ==
    /\ retrieval_strategies = DefaultWeights
    /\ env = [embed_ok |-> TRUE, failing |-> {}, hanging |-> {}, semantic_hits |-> <<>>]
    /\ strategies = DefaultStrategies
    /\ intent = [type |-> "general", target_word |-> ""]
    /\ top_k = 0
    /\ all_results = [s \in Strategies |-> <<>>]
    /\ caught = {}
    /\ cursor = 0
    /\ fused_results = <<>>
    /\ reranked_results = <<>>
    /\ returns = <<>>
    /\ query = <<>>
    /\ keyword_intent = None
    /\ semantic_intent = None
    /\ pattern_intent = None
    /\ recognized = None
    /\ intent_recognizer = None
    /\ served = <<>>
    /\ validated = None
    /\ lexical = None
    /\ RewriterIdle
    /\ ListeningIdle
    /\ WrapperIdle
    /\ pc = "listening"

\* POST /start
start_playback(req, current_user) ==
    LET user_id == current_user.id
    IN  /\ pc = "listening"
        /\ IF req.audio_id = <<>> \/ req.audio_id = <<"">>
           THEN Answer(player_states, HTTPException(400, "Audio ID required"))
           ELSE IF req.audio_id[1] \notin DOMAIN mock_audio_library
           THEN Answer(player_states, HTTPException(404, "Audio file not found"))
           ELSE LET audio_info == mock_audio_library[req.audio_id[1]]
                    state == [audio_id |-> req.audio_id,
                              is_playing |-> TRUE,
                              current_time |-> IF req.current_time = <<>>
                                               THEN 0 ELSE req.current_time[1],
                              speed |-> 10,
                              volume |-> 10,
                              total_duration |-> audio_info.duration]
                IN  Answer(SetItem(player_states, user_id, state), PlaybackStatus(state))

\* the state with the time of the request, if it has one
WithTimeOf(req, state) ==
    IF req.current_time # <<>>
    THEN [state EXCEPT !.current_time = req.current_time[1]]
    ELSE state

\* POST /pause
pause_playback(req, current_user) ==
    LET user_id == current_user.id
    IN  /\ pc = "listening"
        /\ IF user_id \notin DOMAIN player_states
           THEN Answer(player_states, HTTPException(400, "No active playback"))
           ELSE LET state == WithTimeOf(req, [player_states[user_id]
                                                 EXCEPT !.is_playing = FALSE])
                IN  Answer(SetItem(player_states, user_id, state), PlaybackStatus(state))

\* POST /resume
resume_playback(req, current_user) ==
    LET user_id == current_user.id
    IN  /\ pc = "listening"
        /\ IF user_id \notin DOMAIN player_states
           THEN Answer(player_states, HTTPException(400, "No playback to resume"))
           ELSE LET state == WithTimeOf(req, [player_states[user_id]
                                                 EXCEPT !.is_playing = TRUE])
                IN  Answer(SetItem(player_states, user_id, state), PlaybackStatus(state))

\* POST /stop
stop_playback(current_user) ==
    LET user_id == current_user.id
    IN  /\ pc = "listening"
        /\ IF user_id \notin DOMAIN player_states
           THEN Answer(player_states, HTTPException(400, "No active playback"))
           ELSE Answer(SetItem(player_states, user_id, DefaultPlaybackStatus),
                       PlaybackStatus(DefaultPlaybackStatus))

\* POST /set-speed
set_speed(req, current_user) ==
    LET user_id == current_user.id
    IN  /\ pc = "listening"
        /\ IF user_id \notin DOMAIN player_states
           THEN Answer(player_states, HTTPException(400, "No active playback"))
           ELSE IF ~(5 <= req.speed /\ req.speed <= 20)
           THEN Answer(player_states,
                       HTTPException(400, "Speed must be between 0.5x and 2.0x"))
           ELSE LET state == [player_states[user_id] EXCEPT !.speed = req.speed]
                IN  Answer(SetItem(player_states, user_id, state), PlaybackStatus(state))

\* POST /set-position
set_position(req, current_user) ==
    LET user_id == current_user.id
    IN  /\ pc = "listening"
        /\ IF user_id \notin DOMAIN player_states
           THEN Answer(player_states, HTTPException(400, "No active playback"))
           ELSE IF req.current_time = <<>>
           THEN Answer(player_states, HTTPException(400, "Current time required"))
           ELSE LET state == [player_states[user_id]
                                 EXCEPT !.current_time = req.current_time[1]]
                IN  Answer(SetItem(player_states, user_id, state), PlaybackStatus(state))

\* GET /status
get_playback_status(current_user) ==
    LET user_id == current_user.id
    IN  /\ pc = "listening"
        /\ IF user_id \notin DOMAIN player_states
           THEN Answer(player_states, PlaybackStatus(DefaultPlaybackStatus))
           ELSE Answer(player_states, PlaybackStatus(player_states[user_id]))

NextListening ==
    \E current_user \in CurrentUsers :
        \/ \E req \in PlaybackControlRequests : start_playback(req, current_user)
        \/ \E req \in PlaybackControlRequests : pause_playback(req, current_user)
        \/ \E req \in PlaybackControlRequests : resume_playback(req, current_user)
        \/ stop_playback(current_user)
        \/ \E req \in SpeedControlRequests : set_speed(req, current_user)
        \/ \E req \in PlaybackControlRequests : set_position(req, current_user)
        \/ get_playback_status(current_user)

SpecListening == InitListening /\ [][NextListening]_vars

\* a playing state holds an audio of the library and its duration
PlayingHoldsLibraryAudio ==
    \A user_id \in DOMAIN player_states :
        LET state == player_states[user_id]
        IN  state.is_playing =>
                /\ state.audio_id # <<>>
                /\ state.audio_id[1] \in DOMAIN mock_audio_library
                /\ state.total_duration = mock_audio_library[state.audio_id[1]].duration

\* the step is a control request of the user
ControlRequest(current_user) ==
    \/ \E req \in PlaybackControlRequests : pause_playback(req, current_user)
    \/ \E req \in PlaybackControlRequests : resume_playback(req, current_user)
    \/ stop_playback(current_user)
    \/ \E req \in SpeedControlRequests : set_speed(req, current_user)
    \/ \E req \in PlaybackControlRequests : set_position(req, current_user)

\* a control request of a user without a playback state is answered 400 and
\* leaves the user without one
ControlWithoutStateRejected ==
    \A current_user \in CurrentUsers :
        current_user.id \notin DOMAIN player_states /\ ControlRequest(current_user)
            => /\ response'.status_code = 400
               /\ current_user.id \notin DOMAIN player_states'

\* C29: in every playback state reachable by start, pause, resume, stop,
\* set-speed and set-position requests, is_playing implies that audio_id is
\* the id of an audio of the library and total_duration is its duration; a
\* control request of a user without a playback state is answered with
\* status 400 and creates no state
C29_PlayingImpliesLibraryAudio ==
    /\ []PlayingHoldsLibraryAudio
    /\ [][ControlWithoutStateRejected]_vars

\* the second half of C29 alone
C29_ControlWithoutStateIsRejected == [][ControlWithoutStateRejected]_vars

\* a user whose playback was stopped and resumed: playing without an audio
C29_PlayingWithoutAudio ==
    \E user_id \in DOMAIN player_states :
        /\ player_states[user_id].is_playing
        /\ player_states[user_id].audio_id = <<>>
        /\ player_states[user_id].total_duration = 0

\* a control request was answered 400 while another user has a state
C29_RejectedWithoutState ==
    /\ response # None
    /\ response.status_code = 400
    /\ response.detail = "No playback to resume"
    /\ DOMAIN player_states # {}

-----------------------------------------------------------------------------
(* models/embedding_model.py: concurrent calls of EmbeddingModel(...).
   RerankerModel and GeneratorModel construct themselves the same way. *)

MODEL_PATH == "/Users/litengjiang/.cache/modelscope/hub/models/Qwen/Qwen3-Embedding-0.6B"

\* the threads that call the constructor, once each
Threads == {"t1", "t2", "t3"}

\* the model_path argument: the default and the empty path
ModelPaths == {MODEL_PATH, ""}

\* the lock as held by a thread
HeldBy(thread) == [holder |-> thread]

\* the callers with the one of the thread changed
At(thread, position) == [callers EXCEPT ![thread] = position]

InitWrapper ==
    /\ retrieval_strategies = DefaultWeights
    /\ env = [embed_ok |-> TRUE, failing |-> {}, hanging |-> {}, semantic_hits |-> <<>>]
    /\ strategies = DefaultStrategies
    /\ intent = [type |-> "general", target_word |-> ""]
    /\ top_k = 0
    /\ all_results = [s \in Strategies |-> <<>>]
    /\ caught = {}
    /\ cursor = 0
    /\ fused_results = <<>>
    /\ reranked_results = <<>>
    /\ returns = <<>>
    /\ query = <<>>
    /\ keyword_intent = None
    /\ semantic_intent = None
    /\ pattern_intent = None
    /\ recognized = None
    /\ intent_recognizer = None
    /\ served = <<>>
    /\ validated = None
    /\ lexical = None
    /\ RewriterIdle
    /\ ListeningIdle
    /\ _instance = None
    /\ _lock = None
    /\ callers \in [Threads -> [pc : {"call"}, model_path : ModelPaths, created : {FALSE},
                                result : {None}]]
    /\ load_attempts = 0
    /\ pc = "constructing"

\* what no step of a constructor call changes
OutsideWrapper ==
    <<intent_recognizer, served, validated, lexical, rewriting, listening, retriever,
      recognizer, pc>>

\* with cls._lock: the thread waits until the lock is free
AcquireLock(thread) ==
    /\ callers[thread].pc = "call"
    /\ _lock = None
    /\ _lock' = HeldBy(thread)
    /\ callers' = At(thread, [callers[thread] EXCEPT !.pc = "locked"])
    /\ UNCHANGED <<_instance, load_attempts, OutsideWrapper>>

\* if cls._instance is None: create it, with model None
CreateInstance(thread) ==
    /\ callers[thread].pc = "locked"
    /\ _lock = HeldBy(thread)
    /\ IF _instance = None
       THEN /\ _instance' = [id |-> thread, model |-> None]
            /\ callers' = At(thread, [callers[thread] EXCEPT !.pc = "created",
                                                             !.created = TRUE])
       ELSE /\ _instance' = _instance
            /\ callers' = At(thread, [callers[thread] EXCEPT !.pc = "return"])
    /\ UNCHANGED <<_lock, load_attempts, OutsideWrapper>>

\* if model_path: cls._instance.load_model(model_path), where
\* SentenceTransformer(model_path) returns a model
LoadModel(thread) ==
    /\ callers[thread].pc = "created"
    /\ _lock = HeldBy(thread)
    /\ IF callers[thread].model_path # ""
       THEN IF _instance.model = None
            THEN /\ _instance' = [_instance EXCEPT
                                     !.model = [path |-> callers[thread].model_path]]
                 /\ load_attempts' = load_attempts + 1
            ELSE UNCHANGED <<_instance, load_attempts>>
       ELSE UNCHANGED <<_instance, load_attempts>>
    /\ callers' = At(thread, [callers[thread] EXCEPT !.pc = "return"])
    /\ UNCHANGED <<_lock, OutsideWrapper>>

\* load_model where SentenceTransformer(model_path) raises: the exception
\* leaves the with block, which releases the lock, and the call
LoadModelRaises(thread) ==
    /\ callers[thread].pc = "created"
    /\ _lock = HeldBy(thread)
    /\ callers[thread].model_path # ""
    /\ _instance.model = None
    /\ load_attempts' = load_attempts + 1
    /\ _lock' = None
    /\ callers' = At(thread, [callers[thread] EXCEPT !.pc = "raised"])
    /\ UNCHANGED <<_instance, OutsideWrapper>>

\* return cls._instance, which releases the lock
ReturnInstance(thread) ==
    /\ callers[thread].pc = "return"
    /\ _lock = HeldBy(thread)
    /\ _lock' = None
    /\ callers' = At(thread, [callers[thread] EXCEPT !.pc = "returned",
                                                     !.result = [id |-> _instance.id]])
    /\ UNCHANGED <<_instance, load_attempts, OutsideWrapper>>

NextWrapper ==
    \E thread \in Threads :
        \/ AcquireLock(thread)
        \/ CreateInstance(thread)
        \/ LoadModel(thread)
        \/ LoadModelRaises(thread)
        \/ ReturnInstance(thread)

SpecWrapper == InitWrapper /\ [][NextWrapper]_vars

\* the calls that have returned
ReturnedCalls == {thread \in DOMAIN callers : callers[thread].pc = "returned"}

\* the calls that created an instance
CreatingCalls == {thread \in DOMAIN callers : callers[thread].created}

\* at most one instance is ever created, the body of load_model runs at most
\* once, and the calls that return yield the same instance
AtMostOneInstance ==
    /\ Cardinality(CreatingCalls) <= 1
    /\ load_attempts <= 1
    /\ \A thread \in ReturnedCalls :
          /\ _instance # None
          /\ callers[thread].result = [id |-> _instance.id]

\* the calls that return yield an instance whose model is loaded
ReturnedInstanceLoaded ==
    \A thread \in ReturnedCalls : _instance # None /\ _instance.model # None

\* C30: under any interleaving of concurrent constructor calls of a model
\* wrapper at most one instance is ever created, the body that loads the
\* model runs at most once, and every call that returns yields that same
\* instance with its model loaded, also after an earlier load attempt raised
C30_OneLoadedInstance ==
    /\ AtMostOneInstance
    /\ ReturnedInstanceLoaded

\* the part of C30 about the number of instances and loads alone
C30_AtMostOneInstanceAndLoad == AtMostOneInstance

\* the load of the first call raised and a later call returned the instance
C30_ReturnedAfterRaise ==
    /\ \E thread \in DOMAIN callers : callers[thread].pc = "raised"
    /\ \E thread \in ReturnedCalls :
          /\ callers[thread].model_path = MODEL_PATH
          /\ _instance.model = None

==============================================================================
